---- MODULE Spec2Model ----
(***************************************************************************)
(* The authenticated API client of the web frontend (apiClient.ts):        *)
(* apiFetch with the shared refresh-in-flight guard, refresh-and-retry on  *)
(* 401 and the redirect to the login screen.                               *)
(*                                                                         *)
(* Execution is the browser's event loop: a network event (a response, a   *)
(* transport failure, a body that has been read) is one task, and the      *)
(* promise reactions it schedules (the microtasks) all run before the next *)
(* task.  The queue of microtasks is the variable micro.                   *)
(***************************************************************************)
EXTENDS Integers, Sequences, FiniteSets, TLC

\* ------------------------------------------------------------- bounds
\* Number of apiFetch calls a behaviour issues.
NCalls == 2

Calls == 1..NCalls

\* Requests a page awaits at once when one more is started from a button.
MaxPending == 2

\* ------------------------------------------------------------- values
\* window.location.pathname, as the sequence of its characters.
LoginPath == <<"/", "l", "o", "g", "i", "n">>
RegisterPath == <<"/", "r", "e", "g", "i", "s", "t", "e", "r">>
WorkspacesPath == <<"/", "w", "o", "r", "k", "s", "p", "a", "c", "e", "s">>
Paths == {LoginPath, RegisterPath, WorkspacesPath}

\* String.prototype.startsWith
StartsWith(s, prefix) ==
    /\ Len(s) >= Len(prefix)
    /\ SubSeq(s, 1, Len(prefix)) = prefix

\* HTTP statuses the backend answers with.
Statuses == {200, 401, 500}

\* Response.ok
IsOk(status) == status >= 200 /\ status <= 299

\* The content-type header of a response, as the sequence of its parts;
\* an absent header (headers.get gives null) reads as the empty string.
JsonType == <<"application/json">>
JsonCharsetType == <<"application/json", "; charset=utf-8">>
HtmlType == <<"text/html">>
NoType == <<>>
ContentTypes == {JsonCharsetType, HtmlType, NoType}

\* Variant of Includes: the header value compared as a whole.
IncludesWhole(parts, part) == parts = <<part>>

\* String.prototype.includes, on the parts of the header value.
Includes(parts, part) == \E i \in 1..Len(parts) : parts[i] = part

\* Response bodies (the text the body stream delivers).
EmptyBody == ""
ObjBody == "{\"id\":7}"
EmptyObjBody == "{}"
TextBody == "denied"
JsonBodies == {ObjBody, EmptyObjBody, EmptyBody}
TextBodies == {EmptyBody, TextBody}

\* A JSON object, as the set of its <<key, value>> pairs.
EmptyObject == {}
\* JSON.parse on the bodies above; CannotParse stands for the SyntaxError.
CannotParse == {<<"SyntaxError", 0>>}
ParseJson(text) ==
    CASE text = ObjBody -> {<<"id", 7>>}
      [] text = EmptyObjBody -> EmptyObject
      [] OTHER -> CannotParse

\* What a rejected network promise carries: an error with a message, or a
\* value without one (e?.message is undefined).
NoMessage == "<undefined>"
Errors == {"Failed to fetch", NoMessage}

\* A Response object: status and content-type header as received, attempt the
\* doFetch() invocation that it answers, body the text its stream delivered
\* once read (Unread before).
Unread == "<unread>"
NoResp == [status |-> 0, ctype |-> NoType, attempt |-> 0, body |-> Unread]
\* The responses a doFetch() can resolve with.  The header of a non-2xx
\* response is never read, so one value stands for it.
Responses(attempt) ==
    {resp \in [status : Statuses, ctype : ContentTypes,
               attempt : {attempt}, body : {Unread}] :
        ~IsOk(resp.status) => resp.ctype = HtmlType}

\* The promise of a call that has not resolved.
NoResult == [pending |-> TRUE]

\* A headers object, as the set of its <<key, value>> pairs (keys are
\* case-sensitive property names).
NoHeaders == {}
DefaultHeaders == {<<"Content-Type", "application/json">>}
Keys(headers) == {h[1] : h \in headers}

\* {...a, ...b}: the properties of b replace those of a with the same key.
Spread(a, b) == {h \in a : h[1] \notin Keys(b)} \cup b

\* The argument `opts` of apiFetch, with the path: a credentials option
\* (Absent when not given) and headers (empty when not given, as
\* `opts?.headers ?? {}` reads it).  RequestInit admits headers as a plain
\* object or as an instance of Headers; headersClass says which.
Absent == "<absent>"
DefaultOpts ==
    [path |-> "/workspaces", method |-> Absent, body |-> Absent,
     credentials |-> Absent, headersClass |-> "Object", headers |-> NoHeaders]
\* Options a caller can pass: its own credentials and Content-Type, and a
\* content type under the lower-case property name.
UploadOpts ==
    [path |-> "/me", method |-> "POST", body |-> "file",
     credentials |-> "omit", headersClass |-> "Object",
     headers |-> {<<"Content-Type", "multipart/form-data">>}]
LowerCaseOpts ==
    [path |-> "/workspaces", method |-> "PUT", body |-> TextBody,
     credentials |-> Absent, headersClass |-> "Object",
     headers |-> {<<"content-type", "text/plain">>, <<"X-Trace", "1">>}]
HeadersInstanceOpts ==
    [path |-> "/workspaces", method |-> "PUT", body |-> TextBody,
     credentials |-> Absent, headersClass |-> "Headers",
     headers |-> {<<"Content-Type", "text/plain">>}]
OptsSet == {UploadOpts, LowerCaseOpts, HeadersInstanceOpts}

\* The own enumerable properties that `...(opts?.headers ?? {})` copies: the
\* entries of a plain object, none of an instance of Headers (its entries are
\* not properties).
OwnProperties(o) == IF o.headersClass = "Headers" THEN NoHeaders ELSE o.headers

\* The three apiFetch modules of the repository: with refresh and retry, with
\* the redirect only, and with neither.
Clients == {"refresh", "redirect", "plain"}

\* The value caught[c] holds while call c has caught nothing.
NotCaught == "<none>"

VARIABLES
    pc,              \* pc[c]: where call c of apiFetch is suspended
    r,               \* r[c]: the local `let r` of call c (attempt: which doFetch gave it)
    result,          \* result[c]: what call c resolved to
    sent,            \* sent[c]: number of doFetch() invocations of call c
    joined,          \* joined[c]: the refresh promise call c awaited (0: none)
    observed,        \* observed[c]: the value `refreshed` of call c ("none" before)
    second,          \* second[c]: status of the retried response of call c (0: none)
    settledBefore,   \* settledBefore[c]: refresh calls settled when c reached refreshOnce
    redirects,       \* redirects[c]: assignments to window.location.href by call c
    first,           \* first[c]: status of the first response of call c (0: none yet)
    refreshInFlight, \* the module-level slot: 0 is null, else the promise held
    refreshNet,      \* refresh network calls (fetch to /auth/refresh) not yet settled
    refreshCalls,    \* number of refresh network calls issued so far
    refreshSettled,  \* number of refresh network calls settled so far
    refreshStatus,   \* refreshStatus[id]: how refresh call id settled (Pending before)
    promise,         \* promise[id]: state of the promise the slot held for call id
    waiters,         \* calls awaiting a refresh promise, in the order they began to
    micro,           \* the microtask queue
    pathname,        \* window.location.pathname of the page
    href,            \* the navigation requested through window.location.href
    batch,           \* TRUE while no call was issued after another one had a response
    client,          \* client[c]: the apiFetch module call c runs
    opts,            \* opts[c]: the path and options call c was given
    caught,          \* caught[c]: the value the catch block of call c received
    wire,            \* the requests passed to fetch() so far
    docs,            \* the state of the mounted DocsPage component
    builder,         \* the state of the mounted RunBuilderPage component
    artifact,        \* the state of the mounted ArtifactDetailPage component
    pipeline,        \* the state of the mounted PipelineRunDetailPage component
    lastRequest,     \* the request the artifact page passed to apiFetch in its last step
    requests         \* the requests the pages passed to apiFetch so far

vars == <<pc, r, result, sent, joined, observed, settledBefore, redirects, first,
          second, refreshInFlight, refreshNet, refreshCalls, refreshSettled,
          refreshStatus, promise, waiters, micro, pathname, href, batch,
          client, opts, caught, wire, docs, builder, artifact, pipeline,
          lastRequest, requests>>

\* The variables of apiFetch and of its callers in the client module, and
\* those of the pages.
apiVars == <<pc, r, result, sent, joined, observed, settledBefore, redirects, first,
             second, refreshInFlight, refreshNet, refreshCalls, refreshSettled,
             refreshStatus, promise, waiters, micro, pathname, href, batch,
             client, opts, caught, wire>>
pageVars == <<docs, builder, artifact, pipeline, lastRequest, requests>>

\* Roles of a workspace member as the backend reports them; null before the
\* role is loaded.  The backend may spell viewer with a capital.
Null == "<null>"
Roles == {"admin", "member", "viewer", "Viewer"}
\* String.prototype.toLowerCase on the role strings.
ToLowerCase(str) == IF str = "Viewer" THEN "viewer" ELSE str
\* (myRole?.role || ""): the role, or the empty string when myRole is null.
RoleOrEmpty(myRole) == IF myRole = Null THEN "" ELSE myRole

\* The route parameter workspaceId of a page ("" when the route has none).
WorkspaceIds == {"", "w1"}

\* DocsPage after its first render: the useState defaults.  roleFetch, create
\* and ingest say whether the apiFetch call of loadMyRole, createDocsSource
\* and ingestDoc is outstanding; effect whether the [wid] effect has run.
DocsInitial(wid) ==
    [wid |-> wid, myRole |-> Null, err |-> Null, docsSource |-> Null,
     creatingSource |-> FALSE, ingesting |-> FALSE, lastIngest |-> Null,
     effect |-> "scheduled", roleFetch |-> "none", create |-> "none", ingest |-> "none"]

\* Refresh calls (and their promises) are numbered in the order they are issued;
\* a call of apiFetch reaches refreshOnce at most once.
RefreshIds == 1..NCalls
Pending == -1
Thrown == 0

NoNav == <<>>

InitCommon ==
    /\ pc = [c \in Calls |-> "idle"]
    /\ r = [c \in Calls |-> NoResp]
    /\ result = [c \in Calls |-> NoResult]
    /\ sent = [c \in Calls |-> 0]
    /\ joined = [c \in Calls |-> 0]
    /\ observed = [c \in Calls |-> "none"]
    /\ second = [c \in Calls |-> 0]
    /\ settledBefore = [c \in Calls |-> 0]
    /\ redirects = [c \in Calls |-> 0]
    /\ first = [c \in Calls |-> 0]
    /\ refreshInFlight = 0
    /\ refreshNet = {}
    /\ refreshCalls = 0
    /\ refreshSettled = 0
    /\ refreshStatus = [id \in RefreshIds |-> Pending]
    /\ promise = [id \in RefreshIds |-> "pending"]
    /\ waiters = <<>>
    /\ micro = <<>>
    /\ pathname \in Paths
    /\ href = NoNav
    /\ batch = TRUE
    /\ caught = [c \in Calls |-> NotCaught]
    /\ wire = {}

\* RunBuilderPage after its first render.  nav is the route it navigated to.
BuilderInitial(wid) ==
    [wid |-> wid, myRole |-> Null, err |-> Null, mode |-> "agent",
     agents |-> <<>>, agentId |-> Null, templates |-> <<>>, templateId |-> Null,
     loadingTemplates |-> FALSE, creating |-> FALSE, nav |-> Null,
     effect |-> "scheduled", roleFetch |-> "none", agentsFetch |-> "none",
     templatesFetch |-> "none", create |-> "none"]

\* The calls of load() of the artifact page that are outstanding, by the
\* await they are suspended at, and the calls of loadReviews() made outside
\* load().
LoadStages == {"artifact", "run", "role", "reviews", "siblings"}
NoLoads == [stage \in LoadStages |-> 0]

\* art while it is null: an artifact without id or status.
NoArtifact == [id |-> Null, status |-> Null]
\* ArtifactDetailPage after its first render.  aid is the route parameter;
\* address is the path the browser shows.  rejectReload records whether the
\* calls of load() made by reject() have all finished their first request.
ArtifactInitial(aid) ==
    [aid |-> aid, art |-> NoArtifact, status |-> "draft", myRole |-> Null, reviews |-> <<>>,
     err |-> Null, otherId |-> Null,
     saving |-> FALSE, newVerLoading |-> FALSE, submitLoading |-> FALSE,
     approveLoading |-> FALSE, rejectLoading |-> FALSE, publishing |-> FALSE,
     unpublishing |-> FALSE, diffLoading |-> FALSE,
     address |-> "/artifacts/" \o aid,
     effect |-> "scheduled", loads |-> NoLoads, reviewLoads |-> 0,
     rejectReload |-> "none"]
\* No request passed to apiFetch by the step taken.
NoRequest == [method |-> Null, path |-> Null]

\* PipelineRunDetailPage.  The pipeline has three steps, step_index 0, 1, 2;
\* a step that was executed carries the id of its run.
RunIds == {"r0", "r1", "r2"}
\* pr while it is null: a pipeline run without status or steps.
NoPipelineRun == [status |-> Null, steps |-> <<>>]
\* The values of prevCtxByRunId and of prevCtxLoadingByRunId after the first
\* render ({}), by run id.
NothingKnown == [rid \in RunIds |-> "undefined"]
NothingLoading == [rid \in RunIds |-> FALSE]
\* What a handler sees of the two maps, which are those of the render it was
\* made in: the run ids the filter of hydratePrevContextFlags drops, their
\* flag not undefined or their loading flag true.
Closure(known, loading) == {rid \in RunIds : known[rid] # "undefined" \/ loading[rid]}
NoClosure == Closure(NothingKnown, NothingLoading)
\* What a call of hydratePrevContextFlags that awaits a fetch has still to go
\* through: run ids in the order of their steps, the one being fetched first.
TodoLists == {<<"r1">>, <<"r2">>, <<"r1", "r2">>}
\* PipelineRunDetailPage after its first render.  hydrates[todo] is the number
\* of calls of hydratePrevContextFlags that await a fetch with todo left;
\* fetched[rid] counts the GET /runs/{rid} issued: 0, 1, or 2 for more than
\* one; nextSeen and allSeen are what executeNext and executeAll see while
\* they await.
PipelineInitial(prid) ==
    [prid |-> prid, pr |-> NoPipelineRun, err |-> Null,
     loading |-> FALSE, execLoading |-> FALSE, execAllLoading |-> FALSE,
     lastCreatedRunId |-> Null, createdRunIds |-> <<>>,
     prevCtxByRunId |-> NothingKnown, prevCtxLoadingByRunId |-> NothingLoading,
     nextSeen |-> NoClosure, allSeen |-> NoClosure,
     hydrates |-> [todo \in TodoLists |-> 0], fetched |-> [rid \in RunIds |-> 0],
     effect |-> "scheduled"]

\* The value of a page's variable while the route shows another page.
Unmounted == "<unmounted>"
\* No page is mounted.
PagesInitial ==
    /\ docs = Unmounted
    /\ builder = Unmounted
    /\ artifact = Unmounted
    /\ pipeline = Unmounted
    /\ lastRequest = NoRequest
    /\ requests = {}

\* The build with the refresh-capable client, every call with the same path
\* and no options.
Init ==
    /\ InitCommon
    /\ PagesInitial
    /\ client = [c \in Calls |-> "refresh"]
    /\ opts = [c \in Calls |-> DefaultOpts]

\* ------------------------------------------------------------- apiFetch
\* Variant of CanNavigate: the registration screen not exempted.
CanNavigateOffLogin(path) == ~StartsWith(path, LoginPath)

\* redirectToLogin: the test on the current path.
CanNavigate(path) == ~StartsWith(path, LoginPath) /\ ~StartsWith(path, RegisterPath)

\* Variant of NeedsRefresh: the client without the refresh step.
NeedsRefreshNever(status) == FALSE

\* The test that sends a first response to refreshOnce.
NeedsRefresh(status) == status = 401

\* Variant of IsUnauthorized: the redirect on every non-2xx response.
IsUnauthorizedAny(status) == TRUE

\* The test that sends a terminal non-2xx response to redirectToLogin.
IsUnauthorized(status) == status = 401

\* Variant of SlotEmpty: the guard on the slot left out.
SlotEmptyAlways(slot) == TRUE

\* refreshOnce: whether the slot is empty, so that a refresh call is started.
SlotEmpty(slot) == slot = 0

\* Variant of SlotAfterFinally: the slot cleared in then(), on success only.
SlotKeptOnFailure(slot, ok) == IF ok THEN 0 ELSE slot

\* The finally handler of the refresh promise: the slot after it ran.
SlotAfterFinally(slot, ok) == 0

\* Variant of TryRefreshValue: any response counts as a success.
TryRefreshAnyResponse(status) == status # Thrown

\* tryRefresh: the boolean it resolves to, from how its fetch settled.
TryRefreshValue(status) == IF status = Thrown THEN FALSE ELSE IsOk(status)

\* Variant of FinallyValue: then(handler), whose handler returns nothing.
ThenValue(ok) == FALSE

\* promise.finally(handler): the value passes through the handler.
FinallyValue(ok) == ok

\* Variant of Retried: the retried response awaited but not assigned to r.
RetriedDiscarded(old, new) == old

\* `r = await doFetch()` of the retry: the response r holds afterwards.
Retried(old, new) == new

\* A boolean as the state of a settled promise.
Settled(b) == IF b THEN "true" ELSE "false"

\* Variant of ShouldRetry: the request sent again whatever the refresh gave.
ShouldRetryAlways(refreshed) == TRUE

\* `if (refreshed)`: whether the request is sent again.
ShouldRetry(refreshed) == refreshed

\* doFetch: the url and the init object passed to fetch() for the options o.
\* The spread copies method and body; credentials and headers are set after it.
DoFetchInit(o) ==
    [url |-> o.path,
     method |-> o.method,
     body |-> o.body,
     credentials |-> "include",
     headers |-> Spread(DefaultHeaders, OwnProperties(o))]

\* tryRefresh: the url and the init object passed to fetch().
TryRefreshInit ==
    [url |-> "/auth/refresh",
     method |-> "POST",
     body |-> EmptyObjBody,
     credentials |-> "include",
     headers |-> DefaultHeaders]

\* A request on the wire: init as passed to fetch(), by the call of apiFetch (or
\* the refresh call) that sent it, attempt the doFetch() invocation of that
\* call (for the refresh call, the number of the refresh call).
OnWire(init, by, attempt) == [init |-> init, by |-> by, attempt |-> attempt]
RefreshCaller == 0

\* Variant of Failure: the body text used without the fallback.
FailureNoFallback(status, text) == [ok |-> FALSE, error |-> text, status |-> status]

\* The failure result of a non-2xx response whose text was read.
Failure(status, text) ==
    [ok |-> FALSE,
     error |-> IF text = "" THEN "HTTP " \o ToString(status) ELSE text,
     status |-> status]

\* The success result.
Success(data) == [ok |-> TRUE, data |-> data]

\* Variant of Caught: the message used without the fallback.
CaughtNoFallback(e) == [ok |-> FALSE, error |-> e, status |-> 0]

\* The catch block of apiFetch.
Caught(e) ==
    [ok |-> FALSE,
     error |-> IF e = NoMessage THEN "Network error" ELSE e,
     status |-> 0]

\* redirectToLogin(), called by call c.
RedirectToLogin(c) ==
    IF CanNavigate(pathname)
    THEN /\ href' = LoginPath
         /\ redirects' = [redirects EXCEPT ![c] = @ + 1]
    ELSE UNCHANGED <<href, redirects>>

\* Lines 105-117 up to the next await, for the response resp now held in r.
AfterResponse(c, resp) ==
    /\ r' = [r EXCEPT ![c] = resp]
    /\ IF ~IsOk(resp.status)
       THEN /\ IF IsUnauthorized(resp.status)
               THEN RedirectToLogin(c)
               ELSE UNCHANGED <<href, redirects>>
            /\ pc' = [pc EXCEPT ![c] = "text"]
            /\ UNCHANGED result
       ELSE /\ UNCHANGED <<href, redirects>>
            /\ IF ~Includes(resp.ctype, JsonType[1])
               THEN /\ pc' = [pc EXCEPT ![c] = "done"]
                    /\ result' = [result EXCEPT ![c] = Success(EmptyObject)]
               ELSE /\ pc' = [pc EXCEPT ![c] = "json"]
                    /\ UNCHANGED result

\* Variant of Throw: the value thrown again, so that the call rejects.
Rethrow(c, e) ==
    /\ caught' = [caught EXCEPT ![c] = e]
    /\ pc' = [pc EXCEPT ![c] = "rejected"]
    /\ result' = [result EXCEPT ![c] = [rejected |-> e]]

\* The catch block taken by call c with the thrown value e.
Throw(c, e) ==
    /\ caught' = [caught EXCEPT ![c] = e]
    /\ pc' = [pc EXCEPT ![c] = "done"]
    /\ result' = [result EXCEPT ![c] = Caught(e)]

refreshVars == <<refreshInFlight, refreshNet, refreshCalls, refreshSettled,
                 refreshStatus, promise, waiters, micro>>
ghostVars == <<joined, observed, settledBefore, second>>

\* A page calls apiFetch: doFetch() is invoked and the call suspends.
\* Variant of Call: a request identical to one in flight is not sent again.
CallCoalesced(c) ==
    /\ micro = <<>>
    /\ pc[c] = "idle"
    /\ \A d \in Calls : d < c => pc[d] # "idle"
    /\ pc' = [pc EXCEPT ![c] = "fetch1"]
    /\ sent' = [sent EXCEPT ![c] = 1]
    /\ batch' = (batch /\ \A d \in Calls : pc[d] \in {"idle", "fetch1"})
    /\ wire' = IF \E d \in Calls : /\ pc[d] = "fetch1"
                                   /\ DoFetchInit(opts[d]) = DoFetchInit(opts[c])
               THEN wire
               ELSE wire \cup {OnWire(DoFetchInit(opts[c]), c, 1)}
    /\ UNCHANGED <<r, result, redirects, first, pathname, client, opts, pageVars, href, caught,
                   refreshVars, ghostVars>>

Call(c) ==
    /\ micro = <<>>
    /\ pc[c] = "idle"
    /\ \A d \in Calls : d < c => pc[d] # "idle"
    /\ pc' = [pc EXCEPT ![c] = "fetch1"]
    /\ sent' = [sent EXCEPT ![c] = 1]
    /\ batch' = (batch /\ \A d \in Calls : pc[d] \in {"idle", "fetch1"})
    /\ wire' = wire \cup {OnWire(DoFetchInit(opts[c]), c, 1)}
    /\ UNCHANGED <<r, result, redirects, first, pathname, client, opts, pageVars, href, caught,
                   refreshVars, ghostVars>>

\* The first doFetch() resolves with a response.
RecvFirst(c, resp) ==
    /\ micro = <<>>
    /\ pc[c] = "fetch1"
    /\ first' = [first EXCEPT ![c] = resp.status]
    /\ IF NeedsRefresh(resp.status)
       THEN \* refreshOnce(), up to its await
            /\ IF SlotEmpty(refreshInFlight)
               THEN /\ refreshCalls' = refreshCalls + 1
                    /\ refreshNet' = refreshNet \cup {refreshCalls + 1}
                    /\ refreshInFlight' = refreshCalls + 1
                    /\ wire' = wire \cup
                           {OnWire(TryRefreshInit, RefreshCaller, refreshCalls + 1)}
               ELSE UNCHANGED <<refreshCalls, refreshNet, refreshInFlight, wire>>
            /\ joined' = [joined EXCEPT ![c] = refreshInFlight']
            /\ settledBefore' = [settledBefore EXCEPT ![c] = refreshSettled]
            \* await of the promise returned: a pending one suspends the call
            \* until it settles, a settled one resumes it in a microtask
            /\ IF promise[refreshInFlight'] = "pending"
               THEN /\ waiters' = Append(waiters, c)
                    /\ UNCHANGED micro
               ELSE /\ micro' = <<[kind |-> "resume", id |-> refreshInFlight', c |-> c]>>
                    /\ UNCHANGED waiters
            /\ r' = [r EXCEPT ![c] = resp]
            /\ pc' = [pc EXCEPT ![c] = "refresh"]
            /\ UNCHANGED <<result, redirects, href, observed, second, refreshSettled,
                           refreshStatus, promise>>
       ELSE /\ AfterResponse(c, resp)
            /\ UNCHANGED <<refreshVars, ghostVars, wire>>
    /\ UNCHANGED <<sent, pathname, client, opts, pageVars, batch, caught>>

\* The first doFetch() rejects (transport failure).
FailFirst(c, e) ==
    /\ micro = <<>>
    /\ pc[c] = "fetch1"
    /\ Throw(c, e)
    /\ UNCHANGED <<r, sent, redirects, first, pathname, client, opts, pageVars, href, batch, wire,
                   refreshVars, ghostVars>>

\* The refresh network call id settles: status of its response, Thrown when
\* the fetch threw.  tryRefresh resolves and the finally handler is queued.
RefreshSettle(id, status) ==
    /\ micro = <<>>
    /\ id \in refreshNet
    /\ refreshNet' = refreshNet \ {id}
    /\ refreshSettled' = refreshSettled + 1
    /\ refreshStatus' = [refreshStatus EXCEPT ![id] = status]
    /\ micro' = <<[kind |-> "finally", id |-> id, c |-> 0]>>
    /\ UNCHANGED <<pc, r, result, sent, redirects, first, pathname, client, opts, pageVars, href, batch,
                   caught, wire,
                   refreshInFlight, refreshCalls, promise, waiters, ghostVars>>

\* The finally handler: the slot is cleared, then the promise settles and the
\* calls that await it are queued to resume, in the order they began to wait.
Finally ==
    /\ micro # <<>>
    /\ Head(micro).kind = "finally"
    /\ LET t == Head(micro)
           mine == SelectSeq(waiters, LAMBDA c : joined[c] = t.id)
           ok == TryRefreshValue(refreshStatus[t.id])
       IN /\ refreshInFlight' = SlotAfterFinally(refreshInFlight, ok)
          /\ promise' = [promise EXCEPT ![t.id] = Settled(FinallyValue(ok))]
          /\ micro' = Tail(micro) \o
                 [i \in 1..Len(mine) |-> [kind |-> "resume", id |-> t.id, c |-> mine[i]]]
          /\ waiters' = SelectSeq(waiters, LAMBDA c : joined[c] # t.id)
    /\ UNCHANGED <<pc, r, result, sent, redirects, first, pathname, client, opts, pageVars, href, batch,
                   caught, wire,
                   refreshNet, refreshCalls, refreshSettled, refreshStatus, ghostVars>>

\* `await refreshOnce()` resumes in call c with the outcome of the refresh.
Resume ==
    /\ micro # <<>>
    /\ Head(micro).kind = "resume"
    /\ LET t == Head(micro)
           c == t.c
           refreshed == promise[t.id] = "true"
       IN /\ micro' = Tail(micro)
          /\ observed' = [observed EXCEPT ![c] = Settled(refreshed)]
          /\ IF ShouldRetry(refreshed)
             THEN /\ sent' = [sent EXCEPT ![c] = @ + 1]
                  /\ wire' = wire \cup {OnWire(DoFetchInit(opts[c]), c, sent[c] + 1)}
                  /\ pc' = [pc EXCEPT ![c] = "fetch2"]
                  /\ UNCHANGED <<r, result, redirects, href>>
             ELSE /\ AfterResponse(c, r[c])
                  /\ UNCHANGED <<sent, wire>>
    /\ UNCHANGED <<first, pathname, client, opts, pageVars, batch, caught, joined, settledBefore, second,
                   refreshInFlight, refreshNet, refreshCalls, refreshSettled,
                   refreshStatus, promise, waiters>>

\* The retried doFetch() resolves with a response.
RecvRetry(c, resp) ==
    /\ micro = <<>>
    /\ pc[c] = "fetch2"
    /\ second' = [second EXCEPT ![c] = resp.status]
    /\ AfterResponse(c, Retried(r[c], resp))
    /\ UNCHANGED <<sent, first, pathname, client, opts, pageVars, batch, caught, wire, refreshVars,
                   joined, observed,
                   settledBefore>>

\* The retried doFetch() rejects.
FailRetry(c, e) ==
    /\ micro = <<>>
    /\ pc[c] = "fetch2"
    /\ Throw(c, e)
    /\ UNCHANGED <<r, sent, redirects, first, pathname, client, opts, pageVars, href, batch, wire,
                   refreshVars, ghostVars>>

\* `await r.text()` resolves with the text of a non-2xx response.
ReadText(c, text) ==
    /\ micro = <<>>
    /\ pc[c] = "text"
    /\ r' = [r EXCEPT ![c].body = text]
    /\ pc' = [pc EXCEPT ![c] = "done"]
    /\ result' = [result EXCEPT ![c] = Failure(r[c].status, text)]
    /\ UNCHANGED <<sent, redirects, first, pathname, client, opts, pageVars, href, batch, caught, wire,
                   refreshVars, ghostVars>>

\* `await r.json()` settles: the body is read and parsed, or parsing throws.
ReadJson(c, text) ==
    /\ micro = <<>>
    /\ pc[c] = "json"
    /\ r' = [r EXCEPT ![c].body = text]
    /\ IF ParseJson(text) = CannotParse
       THEN Throw(c, "Unexpected token")
       ELSE /\ pc' = [pc EXCEPT ![c] = "done"]
            /\ result' = [result EXCEPT ![c] = Success(ParseJson(text))]
            /\ UNCHANGED caught
    /\ UNCHANGED <<sent, redirects, first, pathname, client, opts, pageVars, href, batch, wire,
                   refreshVars, ghostVars>>

\* Reading the body rejects (the stream fails) in r.text() or r.json().
ReadFail(c, e) ==
    /\ micro = <<>>
    /\ pc[c] \in {"text", "json"}
    /\ Throw(c, e)
    /\ UNCHANGED <<r, sent, redirects, first, pathname, client, opts, pageVars, href, batch, wire,
                   refreshVars, ghostVars>>

Next ==
    \/ \E c \in Calls : Call(c)
    \/ \E c \in Calls, resp \in Responses(1) : RecvFirst(c, resp)
    \/ \E c \in Calls, e \in Errors : FailFirst(c, e)
    \/ \E id \in refreshNet, status \in Statuses \cup {Thrown} : RefreshSettle(id, status)
    \/ Finally
    \/ Resume
    \/ \E c \in Calls, resp \in Responses(2) : RecvRetry(c, resp)
    \/ \E c \in Calls, e \in Errors : FailRetry(c, e)
    \/ \E c \in Calls, text \in TextBodies : ReadText(c, text)
    \/ \E c \in Calls, text \in JsonBodies : ReadJson(c, text)
    \/ \E c \in Calls, e \in Errors : ReadFail(c, e)

Spec == Init /\ [][Next]_vars

\* Every network call eventually settles: the fetch of a call (first attempt
\* or retry), the reading of a body, the fetch of the refresh call.  The event
\* loop runs a queued microtask before the next task.
FetchSettles(c) ==
    \/ \E resp \in Responses(1) : RecvFirst(c, resp)
    \/ \E e \in Errors : FailFirst(c, e)
    \/ \E resp \in Responses(2) : RecvRetry(c, resp)
    \/ \E e \in Errors : FailRetry(c, e)
BodySettles(c) ==
    \/ \E text \in TextBodies : ReadText(c, text)
    \/ \E text \in JsonBodies : ReadJson(c, text)
    \/ \E e \in Errors : ReadFail(c, e)
RefreshFetchSettles ==
    \E id \in RefreshIds, status \in Statuses \cup {Thrown} : RefreshSettle(id, status)
Microtask == Finally \/ Resume
Fairness ==
    /\ \A c \in Calls : WF_vars(FetchSettles(c)) /\ WF_vars(BodySettles(c))
    /\ WF_vars(RefreshFetchSettles)
    /\ WF_vars(Microtask)

\* The same client on one page, with one representative of each outcome of
\* a network call that the code distinguishes.
InitLive == Init /\ pathname = WorkspacesPath
LiveResponses(attempt) == {resp \in Responses(attempt) : resp.ctype # NoType}
NextLive ==
    \/ \E c \in Calls : Call(c)
    \/ \E c \in Calls, resp \in LiveResponses(1) : RecvFirst(c, resp)
    \/ \E c \in Calls : FailFirst(c, NoMessage)
    \/ \E id \in refreshNet, status \in {200, 401, Thrown} : RefreshSettle(id, status)
    \/ Finally
    \/ Resume
    \/ \E c \in Calls, resp \in LiveResponses(2) : RecvRetry(c, resp)
    \/ \E c \in Calls : FailRetry(c, NoMessage)
    \/ \E c \in Calls : ReadText(c, TextBody)
    \/ \E c \in Calls, text \in {ObjBody, EmptyBody} : ReadJson(c, text)
    \/ \E c \in Calls : ReadFail(c, NoMessage)

SpecLive == InitLive /\ [][NextLive]_vars /\ Fairness

\* ------------------------------------------------- the simpler clients
\* redirectToLoginIfNeeded(status), called by call c (client with the
\* redirect only).
RedirectToLoginIfNeeded(c, status) ==
    IF status = 401 /\ ~StartsWith(pathname, LoginPath) /\ ~StartsWith(pathname, RegisterPath)
    THEN /\ href' = LoginPath
         /\ redirects' = [redirects EXCEPT ![c] = @ + 1]
    ELSE UNCHANGED <<href, redirects>>

\* Client with the redirect only: fetch() resolves with a response.
RecvRedirectOnly(c, resp) ==
    /\ micro = <<>>
    /\ client[c] = "redirect"
    /\ pc[c] = "fetch1"
    /\ first' = [first EXCEPT ![c] = resp.status]
    /\ r' = [r EXCEPT ![c] = resp]
    /\ IF ~IsOk(resp.status)
       THEN /\ RedirectToLoginIfNeeded(c, resp.status)
            /\ pc' = [pc EXCEPT ![c] = "text"]
            /\ UNCHANGED result
       ELSE /\ UNCHANGED <<href, redirects>>
            /\ IF ~Includes(resp.ctype, JsonType[1])
               THEN /\ pc' = [pc EXCEPT ![c] = "done"]
                    /\ result' = [result EXCEPT ![c] = Success(EmptyObject)]
               ELSE /\ pc' = [pc EXCEPT ![c] = "json"]
                    /\ UNCHANGED result
    /\ UNCHANGED <<sent, pathname, client, opts, pageVars, batch, caught, wire, refreshVars, ghostVars>>

\* Client with neither refresh nor redirect (api.ts): fetch() resolves with a
\* response; a 2xx response goes to r.json() whatever its content type.
RecvPlain(c, resp) ==
    /\ micro = <<>>
    /\ client[c] = "plain"
    /\ pc[c] = "fetch1"
    /\ first' = [first EXCEPT ![c] = resp.status]
    /\ r' = [r EXCEPT ![c] = resp]
    /\ pc' = [pc EXCEPT ![c] = IF ~IsOk(resp.status) THEN "text" ELSE "json"]
    /\ UNCHANGED <<result, redirects, href, sent, pathname, client, opts, pageVars, batch, caught,
                   wire, refreshVars, ghostVars>>

\* The three clients side by side: the first call runs the refresh-capable
\* client, the others one of the simpler clients.  fetch() with its init
\* object, r.text(), r.json() and the catch block read the same in the three
\* modules, so Call, FailFirst, ReadText, ReadJson and ReadFail stand for each.
InitVariants ==
    /\ InitCommon
    /\ PagesInitial
    /\ client \in {k \in [Calls -> Clients] :
                     \A c \in Calls : k[c] = "refresh" <=> c = 1}
    /\ opts = [c \in Calls |-> DefaultOpts]

NextVariants ==
    \/ \E c \in Calls : Call(c)
    \/ \E c \in Calls, resp \in Responses(1) : client[c] = "refresh" /\ RecvFirst(c, resp)
    \/ \E c \in Calls, resp \in Responses(1) : RecvRedirectOnly(c, resp)
    \/ \E c \in Calls, resp \in Responses(1) : RecvPlain(c, resp)
    \/ \E c \in Calls, e \in Errors : FailFirst(c, e)
    \/ \E id \in refreshNet, status \in Statuses \cup {Thrown} : RefreshSettle(id, status)
    \/ Finally
    \/ Resume
    \/ \E c \in Calls, resp \in Responses(2) : RecvRetry(c, resp)
    \/ \E c \in Calls, e \in Errors : FailRetry(c, e)
    \/ \E c \in Calls, text \in TextBodies : ReadText(c, text)
    \/ \E c \in Calls, text \in JsonBodies : ReadJson(c, text)
    \/ \E c \in Calls, e \in Errors : ReadFail(c, e)

SpecVariants == InitVariants /\ [][NextVariants]_vars

\* The refresh-capable client called with any path and options (the first
\* call; the others as in Init), on a page other than login and registration.
InitOpts ==
    /\ InitCommon
    /\ PagesInitial
    /\ pathname = WorkspacesPath
    /\ client = [c \in Calls |-> "refresh"]
    /\ opts \in {o \in [Calls -> OptsSet \cup {DefaultOpts}] :
                   \A c \in Calls : o[c] = DefaultOpts <=> c > 1}

SpecOpts == InitOpts /\ [][Next]_vars

\* ------------------------------------------------------------- the pages
\* A page passes a path and options to apiFetch and awaits the
\* result, which is {ok:true, data} or {ok:false, error, status}.

\* canWrite of DocsPage and of RunBuilderPage.
CanWrite(myRole) == ToLowerCase(RoleOrEmpty(myRole)) # "viewer"

\* The failures apiFetch resolves with: of a non-2xx response, of the
\* transport.
ApiFailures == {Failure(500, TextBody), Caught("Failed to fetch")}
\* The text a page shows for a failure: "<what> failed: <status> <error>".
FailedText(what, res) ==
    what \o " failed: " \o ToString(res.status) \o " " \o res.error

\* A request a page passed to apiFetch, with the role and the state of the
\* role fetch the page held when it did.
PageRequest(page, method, path, myRole, roleFetch) ==
    [page |-> page, method |-> method, path |-> path,
     myRole |-> myRole, roleFetch |-> roleFetch]

\* DocsPage: canIngest.
DocsCanIngest == docs.docsSource # Null /\ CanWrite(docs.myRole)

\* DocsPage: the effect on [wid] resets the page and calls loadMyRole.
DocsEffect ==
    /\ docs.effect = "scheduled"
    /\ IF docs.wid = ""
       THEN /\ docs' = [docs EXCEPT !.effect = "ran", !.err = Null, !.docsSource = Null,
                                     !.lastIngest = Null, !.myRole = Null]
            /\ UNCHANGED requests
       ELSE /\ docs' = [docs EXCEPT !.effect = "ran", !.err = Null, !.docsSource = Null,
                                     !.lastIngest = Null, !.myRole = Null,
                                     !.roleFetch = "pending"]
            /\ requests' = requests \cup
                   {PageRequest("docs", "GET", "/workspaces/" \o docs.wid \o "/my-role",
                                docs.myRole, docs.roleFetch)}
    /\ UNCHANGED <<builder, artifact, pipeline,
                 lastRequest, apiVars>>

\* DocsPage.loadMyRole after its await: res is what apiFetch resolved with.
DocsRoleLoaded(res) ==
    /\ docs.roleFetch = "pending"
    /\ IF ~res.ok
       THEN docs' = [docs EXCEPT !.myRole = Null, !.roleFetch = "failed",
                                 !.err = FailedText("Role load", res)]
       ELSE docs' = [docs EXCEPT !.myRole = res.data, !.roleFetch = "loaded"]
    /\ UNCHANGED <<requests, builder, artifact, pipeline,
                 lastRequest, apiVars>>

\* DocsPage.createDocsSource up to its await, called by the button, which is
\* disabled by `!wid || !canWrite` and while loading.
CreateDocsSource ==
    /\ ~(docs.wid = "" \/ ~CanWrite(docs.myRole))
    /\ ~docs.creatingSource
    /\ IF docs.wid = "" THEN UNCHANGED <<docs, requests>>
       ELSE IF ~CanWrite(docs.myRole)
       THEN /\ docs' = [docs EXCEPT
                          !.err = "You are a viewer. Docs source creation is disabled."]
            /\ UNCHANGED requests
       ELSE /\ docs' = [docs EXCEPT !.err = Null, !.creatingSource = TRUE,
                                     !.create = "pending"]
            /\ requests' = requests \cup
                   {PageRequest("docs", "POST", "/workspaces/" \o docs.wid \o "/sources/docs",
                                docs.myRole, docs.roleFetch)}
    /\ UNCHANGED <<builder, artifact, pipeline,
                 lastRequest, apiVars>>

\* DocsPage.createDocsSource after its await.
DocsSourceCreated(res) ==
    /\ docs.create = "pending"
    /\ IF ~res.ok
       THEN docs' = [docs EXCEPT !.creatingSource = FALSE, !.create = "none",
                                 !.err = FailedText("Create docs source", res)]
       ELSE docs' = [docs EXCEPT !.creatingSource = FALSE, !.create = "none",
                                 !.docsSource = res.data]
    /\ UNCHANGED <<requests, builder, artifact, pipeline,
                 lastRequest, apiVars>>

\* DocsPage.ingestDoc up to its await, called by the button, which is disabled
\* by `!canIngest` and while loading.
IngestDoc ==
    /\ DocsCanIngest
    /\ ~docs.ingesting
    /\ IF docs.wid = "" THEN UNCHANGED <<docs, requests>>
       ELSE IF ~CanWrite(docs.myRole)
       THEN /\ docs' = [docs EXCEPT !.err = "You are a viewer. Docs ingestion is disabled."]
            /\ UNCHANGED requests
       ELSE IF docs.docsSource = Null
       THEN /\ docs' = [docs EXCEPT !.err = "Create a Docs source first."]
            /\ UNCHANGED requests
       ELSE /\ docs' = [docs EXCEPT !.err = Null, !.ingesting = TRUE, !.ingest = "pending"]
            /\ requests' = requests \cup
                   {PageRequest("docs", "POST",
                                "/workspaces/" \o docs.wid \o "/documents/docs",
                                docs.myRole, docs.roleFetch)}
    /\ UNCHANGED <<builder, artifact, pipeline,
                 lastRequest, apiVars>>

\* DocsPage.ingestDoc after its await.
DocsIngested(res) ==
    /\ docs.ingest = "pending"
    /\ IF ~res.ok
       THEN docs' = [docs EXCEPT !.ingesting = FALSE, !.ingest = "none",
                                 !.err = FailedText("Docs ingest", res)]
       ELSE docs' = [docs EXCEPT !.ingesting = FALSE, !.ingest = "none",
                                 !.lastIngest = res.data]
    /\ UNCHANGED <<requests, builder, artifact, pipeline,
                 lastRequest, apiVars>>

InitDocs ==
    /\ InitCommon
    /\ pathname = WorkspacesPath
    /\ client = [c \in Calls |-> "refresh"]
    /\ opts = [c \in Calls |-> DefaultOpts]
    /\ docs \in {DocsInitial(wid) : wid \in WorkspaceIds}
    /\ builder = Unmounted
    /\ artifact = Unmounted
    /\ pipeline = Unmounted
    /\ lastRequest = NoRequest
    /\ requests = {}

NextDocs ==
    \/ DocsEffect
    \/ \E res \in {Success(role) : role \in Roles} \cup ApiFailures : DocsRoleLoaded(res)
    \/ CreateDocsSource
    \/ \E res \in {Success("source-1")} \cup ApiFailures : DocsSourceCreated(res)
    \/ IngestDoc
    \/ \E res \in {Success("ingested")} \cup ApiFailures : DocsIngested(res)

SpecDocs == InitDocs /\ [][NextDocs]_vars

\* RunBuilderPage: the effect on [wid] calls loadMyRole, loadAgents and
\* loadTemplates, each up to its await.
BuilderEffect ==
    /\ builder.effect = "scheduled"
    /\ IF builder.wid = ""
       THEN /\ builder' = [builder EXCEPT !.effect = "ran", !.err = Null, !.myRole = Null,
                                           !.agentsFetch = "pending"]
            /\ requests' = requests \cup
                   {PageRequest("builder", "GET", "/agents", builder.myRole, builder.roleFetch)}
       ELSE /\ builder' = [builder EXCEPT !.effect = "ran", !.err = Null, !.myRole = Null,
                                           !.roleFetch = "pending",
                                           !.agentsFetch = "pending",
                                           !.loadingTemplates = TRUE,
                                           !.templatesFetch = "pending"]
            /\ requests' = requests \cup
                   {PageRequest("builder", "GET", path, builder.myRole, builder.roleFetch) :
                      path \in {"/workspaces/" \o builder.wid \o "/my-role", "/agents",
                                "/workspaces/" \o builder.wid \o "/pipelines/templates"}}
    /\ UNCHANGED <<docs, artifact, pipeline,
                 lastRequest, apiVars>>

\* RunBuilderPage.loadMyRole after its await.
BuilderRoleLoaded(res) ==
    /\ builder.roleFetch = "pending"
    /\ IF ~res.ok
       THEN builder' = [builder EXCEPT !.myRole = Null, !.roleFetch = "failed",
                                       !.err = FailedText("Role load", res)]
       ELSE builder' = [builder EXCEPT !.myRole = res.data, !.roleFetch = "loaded"]
    /\ UNCHANGED <<requests, docs, artifact, pipeline,
                 lastRequest, apiVars>>

\* The first id of a list, when the page holds none and the list has one.
FirstIfNone(held, list) == IF list # <<>> THEN list[1] ELSE held

\* RunBuilderPage.loadAgents after its await; `agentId` is the null of the
\* render whose effect called it.
BuilderAgentsLoaded(res) ==
    /\ builder.agentsFetch = "pending"
    /\ IF ~res.ok
       THEN builder' = [builder EXCEPT !.agents = <<>>, !.agentsFetch = "none",
                                       !.err = FailedText("Agents load", res)]
       ELSE builder' = [builder EXCEPT !.agents = res.data, !.agentsFetch = "none",
                                       !.agentId = FirstIfNone(@, res.data)]
    /\ UNCHANGED <<requests, docs, artifact, pipeline,
                 lastRequest, apiVars>>

\* RunBuilderPage.loadTemplates after its await.
BuilderTemplatesLoaded(res) ==
    /\ builder.templatesFetch = "pending"
    /\ IF ~res.ok
       THEN builder' = [builder EXCEPT !.loadingTemplates = FALSE, !.templates = <<>>,
                                       !.templatesFetch = "none",
                                       !.err = FailedText("Templates load", res)]
       ELSE builder' = [builder EXCEPT !.loadingTemplates = FALSE, !.templates = res.data,
                                       !.templatesFetch = "none",
                                       !.templateId = FirstIfNone(@, res.data)]
    /\ UNCHANGED <<requests, docs, artifact, pipeline,
                 lastRequest, apiVars>>

\* RunBuilderPage: the mode radio group.
SetMode(mode) ==
    /\ builder.nav = Null
    /\ builder.mode # mode
    /\ builder' = [builder EXCEPT !.mode = mode]
    /\ UNCHANGED <<requests, docs, artifact, pipeline,
                 lastRequest, apiVars>>

\* RunBuilderPage.create up to its await, called by the button, which is
\* disabled by `!canWrite` and while loading.
Create ==
    /\ builder.nav = Null
    /\ CanWrite(builder.myRole)
    /\ ~builder.creating
    /\ IF builder.wid = "" THEN UNCHANGED <<builder, requests>>
       ELSE IF ~CanWrite(builder.myRole)
       THEN /\ builder' = [builder EXCEPT
                      !.err = "You are a viewer. Creating runs/pipelines is disabled."]
            /\ UNCHANGED requests
       ELSE IF builder.mode = "agent"
       THEN IF builder.agentId = Null
            THEN /\ builder' = [builder EXCEPT !.creating = FALSE, !.err = "Pick an agent."]
                 /\ UNCHANGED requests
            ELSE /\ builder' = [builder EXCEPT !.err = Null, !.creating = TRUE,
                                                !.create = "run"]
                 /\ requests' = requests \cup
                        {PageRequest("builder", "POST",
                                     "/workspaces/" \o builder.wid \o "/runs",
                                     builder.myRole, builder.roleFetch)}
       ELSE IF builder.templateId = Null
            THEN /\ builder' = [builder EXCEPT !.creating = FALSE,
                                                !.err = "Pick a pipeline template."]
                 /\ UNCHANGED requests
            ELSE /\ builder' = [builder EXCEPT !.err = Null, !.creating = TRUE,
                                                !.create = "pipeline"]
                 /\ requests' = requests \cup
                        {PageRequest("builder", "POST",
                                     "/workspaces/" \o builder.wid \o "/pipelines/runs",
                                     builder.myRole, builder.roleFetch)}
    /\ UNCHANGED <<docs, artifact, pipeline,
                 lastRequest, apiVars>>

\* RunBuilderPage.create after its await: the error, or the navigation to
\* the run created.
BuilderCreated(res) ==
    /\ builder.create # "none"
    /\ IF ~res.ok
       THEN builder' = [builder EXCEPT
                          !.creating = FALSE, !.create = "none",
                          !.err = FailedText(IF builder.create = "run" THEN "Create run"
                                             ELSE "Create pipeline run", res)]
       ELSE builder' = [builder EXCEPT
                          !.creating = FALSE, !.create = "none",
                          !.nav = (IF builder.create = "run" THEN "/runs/"
                                   ELSE "/pipelines/runs/") \o res.data]
    /\ UNCHANGED <<requests, docs, artifact, pipeline,
                 lastRequest, apiVars>>

InitBuilder ==
    /\ InitCommon
    /\ pathname = WorkspacesPath
    /\ client = [c \in Calls |-> "refresh"]
    /\ opts = [c \in Calls |-> DefaultOpts]
    /\ docs = Unmounted
    /\ builder \in {BuilderInitial(wid) : wid \in WorkspaceIds}
    /\ artifact = Unmounted
    /\ pipeline = Unmounted
    /\ lastRequest = NoRequest
    /\ requests = {}

NextBuilder ==
    \/ BuilderEffect
    \/ \E res \in {Success(role) : role \in Roles} \cup ApiFailures : BuilderRoleLoaded(res)
    \/ \E res \in {Success(<<>>), Success(<<"agent-1">>)} \cup ApiFailures :
            BuilderAgentsLoaded(res)
    \/ \E res \in {Success(<<>>), Success(<<"template-1">>)} \cup ApiFailures :
            BuilderTemplatesLoaded(res)
    \/ \E mode \in {"agent", "pipeline"} : SetMode(mode)
    \/ Create
    \/ \E res \in {Success("run-1")} \cup ApiFailures : BuilderCreated(res)

SpecBuilder == InitBuilder /\ [][NextBuilder]_vars

\* ArtifactDetailPage: what a render derives from the state.
ArtifactRole == ToLowerCase(RoleOrEmpty(artifact.myRole))
ArtifactCanWrite == ArtifactRole = "admin" \/ ArtifactRole = "member"
\* Variant of IsAdmin: every writer decides reviews.
IsAdminOrWriter == ArtifactCanWrite
IsAdmin == ArtifactRole = "admin"
IsFinal == artifact.status = "final"
IsInReview == artifact.status = "in_review"
\* latestReviewState: the state of reviews[0], "" without reviews.
LatestReviewState == IF artifact.reviews = <<>> THEN "" ELSE artifact.reviews[1]

\* Variant of EditLocked: an artifact in review not locked.
EditLockedFinalOnly == IsFinal \/ ~ArtifactCanWrite

\* `isFinal || isInReview || !canWrite`: the guard of saveInPlace,
\* saveNewVersion and submitForReview, and what disables their controls.
EditLocked == IsFinal \/ IsInReview \/ ~ArtifactCanWrite

\* Variant of PublishDisabledReason: the latest review not consulted.
PublishDisabledReasonNoReview ==
    IF ~ArtifactCanWrite THEN "Read-only role"
    ELSE IF IsFinal THEN "Already published (final)"
    ELSE IF ~IsInReview THEN "Submit for review first"
    ELSE Null

PublishDisabledReason ==
    IF ~ArtifactCanWrite THEN "Read-only role"
    ELSE IF IsFinal THEN "Already published (final)"
    ELSE IF ~IsInReview THEN "Submit for review first"
    ELSE IF LatestReviewState # "approved" THEN "Needs admin approval"
    ELSE Null

\* What the backend answers with.  A review list is the states of the reviews,
\* the most recent first.
ArtifactStatuses == {"draft", "in_review", "final"}
Artifacts(id) == {[id |-> id, status |-> st] : st \in ArtifactStatuses}
NewArtifactId == "a2"
RunId == "r1"
ReviewLists ==
    {<<>>, <<"pending">>, <<"approved", "rejected">>, <<"rejected", "approved">>}
SiblingLists == {<<>>, <<"a0">>}
\* What apiFetch resolves with on this page when it fails.
ArtifactFailures == {Failure(500, TextBody)}
\* The results apiFetch resolves with for data out of D.
ApiResults(D) == {Success(d) : d \in D} \cup ArtifactFailures

\* The artifact page passes a request to apiFetch.
Send(method, path) == lastRequest' = [method |-> method, path |-> path]
\* The step taken passes none.
SendNothing == lastRequest' = NoRequest
ArtifactPath(suffix) == "/artifacts/" \o artifact.aid \o suffix
LoadsOutstanding ==
    artifact.loads["artifact"] + artifact.loads["run"] + artifact.loads["role"]
        + artifact.loads["reviews"] + artifact.loads["siblings"]
\* A call of load() passes from one await to the next (to none at its end).
Advance(loads, from, to) ==
    [stage \in LoadStages |->
        loads[stage] - (IF stage = from THEN 1 ELSE 0) + (IF stage = to THEN 1 ELSE 0)]
artifactOthers == <<docs, builder, pipeline, requests, apiVars>>
LoadingFlags ==
    {"saving", "newVerLoading", "submitLoading", "approveLoading", "rejectLoading",
     "publishing", "unpublishing", "diffLoading"}
\* The requests the page awaits.
Awaited ==
    Cardinality({flag \in LoadingFlags : artifact[flag]})
        + LoadsOutstanding + artifact.reviewLoads
\* rejectReload once one more GET /artifacts/{aid} has settled.
ReloadAfter(reload) ==
    IF reload = "running" /\ artifact.loads["artifact"] = 1 THEN "done" ELSE reload

\* The effect on [aid]: load() up to its first await.
ArtifactEffect ==
    /\ artifact.effect = "scheduled"
    /\ IF artifact.aid = ""
       THEN /\ artifact' = [artifact EXCEPT !.effect = "ran"]
            /\ SendNothing
       ELSE /\ artifact' = [artifact EXCEPT !.effect = "ran", !.err = Null,
                                             !.loads = Advance(@, "none", "artifact")]
            /\ Send("GET", ArtifactPath(""))
    /\ UNCHANGED artifactOthers

\* load(): GET /artifacts/{aid} settled.
ArtifactLoaded(res) ==
    /\ artifact.loads["artifact"] > 0
    /\ IF ~res.ok
       THEN /\ artifact' = [artifact EXCEPT !.err = FailedText("Load", res),
                                             !.loads = Advance(@, "artifact", "none"),
                                             !.rejectReload = ReloadAfter(@)]
            /\ SendNothing
       ELSE /\ artifact' = [artifact EXCEPT !.art = res.data, !.status = res.data.status,
                                             !.loads = Advance(@, "artifact", "run"),
                                             !.rejectReload = ReloadAfter(@)]
            /\ Send("GET", "/runs/" \o RunId)
    /\ UNCHANGED artifactOthers

\* loadRoleForArtifact: GET /runs/{run_id} settled; on failure it returns and
\* load() goes on to loadReviews().
RunLoaded(res) ==
    /\ artifact.loads["run"] > 0
    /\ IF ~res.ok
       THEN /\ artifact' = [artifact EXCEPT !.loads = Advance(@, "run", "reviews")]
            /\ Send("GET", ArtifactPath("/reviews"))
       ELSE /\ artifact' = [artifact EXCEPT !.loads = Advance(@, "run", "role")]
            /\ Send("GET", "/workspaces/" \o res.data \o "/my-role")
    /\ UNCHANGED artifactOthers

\* loadRoleForArtifact: GET my-role settled; load() goes on to loadReviews().
ArtifactRoleLoaded(res) ==
    /\ artifact.loads["role"] > 0
    /\ artifact' = [artifact EXCEPT !.myRole = IF res.ok THEN res.data ELSE @,
                                     !.loads = Advance(@, "role", "reviews")]
    /\ Send("GET", ArtifactPath("/reviews"))
    /\ UNCHANGED artifactOthers

\* loadReviews() called by load() settled; load() goes on to the siblings.
LoadReviewsDone(res) ==
    /\ artifact.loads["reviews"] > 0
    /\ artifact' = [artifact EXCEPT !.reviews = IF res.ok THEN res.data ELSE <<>>,
                                     !.loads = Advance(@, "reviews", "siblings")]
    /\ Send("GET", "/runs/" \o RunId \o "/artifacts")
    /\ UNCHANGED artifactOthers

\* load(): GET /runs/{run_id}/artifacts settled, the end of load().
SiblingsLoaded(res) ==
    /\ artifact.loads["siblings"] > 0
    /\ artifact' = [artifact EXCEPT
                       !.otherId = IF res.ok /\ res.data # <<>> THEN res.data[1] ELSE Null,
                       !.loads = Advance(@, "siblings", "none")]
    /\ SendNothing
    /\ UNCHANGED artifactOthers

\* loadReviews() called outside load() settled.
ReviewsLoaded(res) ==
    /\ artifact.reviewLoads > 0
    /\ artifact' = [artifact EXCEPT !.reviews = IF res.ok THEN res.data ELSE <<>>,
                                     !.reviewLoads = @ - 1]
    /\ SendNothing
    /\ UNCHANGED artifactOthers

\* saveInPlace() up to its await.
SaveInPlace ==
    /\ artifact.art # NoArtifact
    /\ ~EditLocked
    /\ ~artifact.saving
    /\ Awaited < MaxPending
    /\ IF EditLocked
       THEN UNCHANGED artifact /\ SendNothing
       ELSE /\ artifact' = [artifact EXCEPT !.saving = TRUE, !.err = Null]
            /\ Send("PUT", ArtifactPath(""))
    /\ UNCHANGED artifactOthers

\* saveInPlace() after its await.
Saved(res) ==
    /\ artifact.saving
    /\ artifact' = IF ~res.ok
                   THEN [artifact EXCEPT !.saving = FALSE, !.err = FailedText("Save", res)]
                   ELSE [artifact EXCEPT !.saving = FALSE, !.art = res.data,
                                         !.status = res.data.status]
    /\ SendNothing
    /\ UNCHANGED artifactOthers

\* saveNewVersion() up to its await.
SaveNewVersion ==
    /\ artifact.art # NoArtifact
    /\ ~EditLocked
    /\ ~artifact.newVerLoading
    /\ Awaited < MaxPending
    /\ IF artifact.art = NoArtifact \/ EditLocked
       THEN UNCHANGED artifact /\ SendNothing
       ELSE /\ artifact' = [artifact EXCEPT !.newVerLoading = TRUE, !.err = Null]
            /\ Send("POST", ArtifactPath("/versions"))
    /\ UNCHANGED artifactOthers

\* saveNewVersion() after its await: on success the new artifact is held, the
\* address bar is rewritten with replaceState and loadReviews() is called.
NewVersionSaved(res) ==
    /\ artifact.newVerLoading
    /\ IF ~res.ok
       THEN /\ artifact' = [artifact EXCEPT !.newVerLoading = FALSE,
                                             !.err = FailedText("New version", res)]
            /\ SendNothing
       ELSE /\ artifact' = [artifact EXCEPT !.newVerLoading = FALSE, !.art = res.data,
                                             !.status = res.data.status,
                                             !.address = "/artifacts/" \o res.data.id,
                                             !.reviewLoads = @ + 1]
            /\ Send("GET", ArtifactPath("/reviews"))
    /\ UNCHANGED artifactOthers

\* submitForReview() up to its await.
SubmitForReview ==
    /\ artifact.art # NoArtifact
    /\ ~EditLocked
    /\ ~artifact.submitLoading
    /\ Awaited < MaxPending
    /\ IF EditLocked
       THEN UNCHANGED artifact /\ SendNothing
       ELSE /\ artifact' = [artifact EXCEPT !.submitLoading = TRUE, !.err = Null]
            /\ Send("POST", ArtifactPath("/submit-review"))
    /\ UNCHANGED artifactOthers

\* submitForReview() after its await: on success load() is called.
Submitted(res) ==
    /\ artifact.submitLoading
    /\ IF ~res.ok
       THEN /\ artifact' = [artifact EXCEPT !.submitLoading = FALSE,
                                             !.err = FailedText("Submit for review", res)]
            /\ SendNothing
       ELSE /\ artifact' = [artifact EXCEPT !.submitLoading = FALSE, !.err = Null,
                                             !.loads = Advance(@, "none", "artifact")]
            /\ Send("GET", ArtifactPath(""))
    /\ UNCHANGED artifactOthers

\* approve() up to its await.  Its button is rendered while isInReview and
\* disabled by !isAdmin.
Approve ==
    /\ artifact.art # NoArtifact
    /\ IsInReview /\ IsAdmin
    /\ ~artifact.approveLoading
    /\ Awaited < MaxPending
    /\ IF ~IsAdmin \/ ~IsInReview
       THEN UNCHANGED artifact /\ SendNothing
       ELSE /\ artifact' = [artifact EXCEPT !.approveLoading = TRUE, !.err = Null]
            /\ Send("POST", ArtifactPath("/approve"))
    /\ UNCHANGED artifactOthers

\* approve() after its await: on success loadReviews() is called.
Approved(res) ==
    /\ artifact.approveLoading
    /\ IF ~res.ok
       THEN /\ artifact' = [artifact EXCEPT !.approveLoading = FALSE,
                                             !.err = FailedText("Approve", res)]
            /\ SendNothing
       ELSE /\ artifact' = [artifact EXCEPT !.approveLoading = FALSE,
                                             !.reviewLoads = @ + 1]
            /\ Send("GET", ArtifactPath("/reviews"))
    /\ UNCHANGED artifactOthers

\* reject() up to its await.
Reject ==
    /\ artifact.art # NoArtifact
    /\ IsInReview /\ IsAdmin
    /\ ~artifact.rejectLoading
    /\ Awaited < MaxPending
    /\ IF ~IsAdmin \/ ~IsInReview
       THEN UNCHANGED artifact /\ SendNothing
       ELSE /\ artifact' = [artifact EXCEPT !.rejectLoading = TRUE, !.err = Null]
            /\ Send("POST", ArtifactPath("/reject"))
    /\ UNCHANGED artifactOthers

\* reject() after its await: on success load() is called.
Rejected(res) ==
    /\ artifact.rejectLoading
    /\ IF ~res.ok
       THEN /\ artifact' = [artifact EXCEPT !.rejectLoading = FALSE,
                                             !.err = FailedText("Reject", res)]
            /\ SendNothing
       ELSE /\ artifact' = [artifact EXCEPT !.rejectLoading = FALSE, !.err = Null,
                                             !.loads = Advance(@, "none", "artifact"),
                                             !.rejectReload = "running"]
            /\ Send("GET", ArtifactPath(""))
    /\ UNCHANGED artifactOthers

\* publish() up to its await.  Its button is rendered while !isFinal and
\* disabled by publishDisabledReason; publish() itself returns on !canWrite.
Publish ==
    /\ artifact.art # NoArtifact
    /\ ~IsFinal
    /\ PublishDisabledReason = Null
    /\ ~artifact.publishing
    /\ Awaited < MaxPending
    /\ IF ~ArtifactCanWrite
       THEN UNCHANGED artifact /\ SendNothing
       ELSE /\ artifact' = [artifact EXCEPT !.publishing = TRUE, !.err = Null]
            /\ Send("POST", ArtifactPath("/publish"))
    /\ UNCHANGED artifactOthers

\* publish() after its await: on success loadReviews() is called.
Published(res) ==
    /\ artifact.publishing
    /\ IF ~res.ok
       THEN /\ artifact' = [artifact EXCEPT !.publishing = FALSE,
                                             !.err = FailedText("Publish", res)]
            /\ SendNothing
       ELSE /\ artifact' = [artifact EXCEPT !.publishing = FALSE, !.art = res.data,
                                             !.status = res.data.status,
                                             !.reviewLoads = @ + 1]
            /\ Send("GET", ArtifactPath("/reviews"))
    /\ UNCHANGED artifactOthers

\* unpublish() up to its await.  Its button is rendered while isFinal and
\* disabled by !canWrite.
Unpublish ==
    /\ artifact.art # NoArtifact
    /\ IsFinal
    /\ ArtifactCanWrite
    /\ ~artifact.unpublishing
    /\ Awaited < MaxPending
    /\ IF ~ArtifactCanWrite
       THEN UNCHANGED artifact /\ SendNothing
       ELSE /\ artifact' = [artifact EXCEPT !.unpublishing = TRUE, !.err = Null]
            /\ Send("POST", ArtifactPath("/unpublish"))
    /\ UNCHANGED artifactOthers

\* unpublish() after its await: on success loadReviews() is called.
Unpublished(res) ==
    /\ artifact.unpublishing
    /\ IF ~res.ok
       THEN /\ artifact' = [artifact EXCEPT !.unpublishing = FALSE,
                                             !.err = FailedText("Unpublish", res)]
            /\ SendNothing
       ELSE /\ artifact' = [artifact EXCEPT !.unpublishing = FALSE, !.art = res.data,
                                             !.status = res.data.status,
                                             !.reviewLoads = @ + 1]
            /\ Send("GET", ArtifactPath("/reviews"))
    /\ UNCHANGED artifactOthers

\* loadDiff() up to its await.  Its button is disabled by !otherId.
LoadDiff ==
    /\ artifact.art # NoArtifact
    /\ artifact.otherId # Null
    /\ ~artifact.diffLoading
    /\ Awaited < MaxPending
    /\ artifact' = [artifact EXCEPT !.diffLoading = TRUE, !.err = Null]
    /\ Send("GET", ArtifactPath("/diff?other_id=" \o artifact.otherId))
    /\ UNCHANGED artifactOthers

\* loadDiff() after its await.
DiffLoaded(res) ==
    /\ artifact.diffLoading
    /\ artifact' = IF ~res.ok
                   THEN [artifact EXCEPT !.diffLoading = FALSE,
                                         !.err = FailedText("Diff", res)]
                   ELSE [artifact EXCEPT !.diffLoading = FALSE]
    /\ SendNothing
    /\ UNCHANGED artifactOthers

InitArtifact ==
    /\ InitCommon
    /\ pathname = WorkspacesPath
    /\ client = [c \in Calls |-> "refresh"]
    /\ opts = [c \in Calls |-> DefaultOpts]
    /\ docs = Unmounted
    /\ builder = Unmounted
    /\ artifact \in {ArtifactInitial(aid) : aid \in {"", "a1"}}
    /\ pipeline = Unmounted
    /\ lastRequest = NoRequest
    /\ requests = {}

NextArtifact ==
    \/ ArtifactEffect
    \/ \E res \in ApiResults(Artifacts(artifact.aid)) : ArtifactLoaded(res)
    \/ \E res \in ApiResults({"w1"}) : RunLoaded(res)
    \/ \E res \in ApiResults(Roles) : ArtifactRoleLoaded(res)
    \/ \E res \in ApiResults(ReviewLists) : LoadReviewsDone(res)
    \/ \E res \in ApiResults(SiblingLists) : SiblingsLoaded(res)
    \/ \E res \in ApiResults(ReviewLists) : ReviewsLoaded(res)
    \/ SaveInPlace
    \/ \E res \in ApiResults(Artifacts(artifact.aid)) : Saved(res)
    \/ SaveNewVersion
    \/ \E res \in ApiResults(Artifacts(NewArtifactId)) : NewVersionSaved(res)
    \/ SubmitForReview
    \/ \E res \in ApiResults({"review"}) : Submitted(res)
    \/ Approve
    \/ \E res \in ApiResults({"review"}) : Approved(res)
    \/ Reject
    \/ \E res \in ApiResults({"review"}) : Rejected(res)
    \/ Publish
    \/ \E res \in ApiResults(Artifacts(artifact.aid)) : Published(res)
    \/ Unpublish
    \/ \E res \in ApiResults(Artifacts(artifact.aid)) : Unpublished(res)
    \/ LoadDiff
    \/ \E res \in ApiResults({"diff"}) : DiffLoaded(res)

SpecArtifact == InitArtifact /\ [][NextArtifact]_vars

\* PipelineRunDetailPage: canExecute.
CanExecute ==
    pipeline.pr # NoPipelineRun /\ ToLowerCase(pipeline.pr.status) # "completed"

\* prev.filter((x) => x !== rid)
Without(prev, rid) == SelectSeq(prev, LAMBDA x : x # rid)

\* Variant of PrependNew: the list not filtered.
PrependKeeping(rid, prev) == <<rid>> \o prev

\* executeNext: [rid, ...prev.filter((x) => x !== rid)]
PrependNew(rid, prev) == <<rid>> \o Without(prev, rid)

\* executeAll: merged.filter(...) with the set `seen`, first occurrences kept.
RECURSIVE DedupeFrom(_, _)
DedupeFrom(merged, seen) ==
    IF merged = <<>> THEN <<>>
    ELSE IF Head(merged) \in seen THEN DedupeFrom(Tail(merged), seen)
    ELSE <<Head(merged)>> \o DedupeFrom(Tail(merged), seen \cup {Head(merged)})
Dedupe(merged) == DedupeFrom(merged, {})
\* (res.data.created_run_ids || []).filter(Boolean)
FilterBoolean(ids) == SelectSeq(ids, LAMBDA x : x # Null)

\* hydratePrevContextFlags: targets, the run ids of the steps with a run and
\* step_index > 0 (steps[i] has step_index i - 1), and todo.
RECURSIVE TargetsFrom(_, _)
TargetsFrom(steps, i) ==
    IF i > Len(steps) THEN <<>>
    ELSE (IF steps[i] # Null THEN <<steps[i]>> ELSE <<>>) \o TargetsFrom(steps, i + 1)
Targets(steps) == TargetsFrom(steps, 2)
Todo(steps, seen) ==
    SelectSeq(Targets(steps),
              LAMBDA rid : rid \notin seen)
\* fetched[rid] after one more GET /runs/{rid}.
OnceMore(count) == IF count = 0 THEN 1 ELSE 2
\* The ids in a list.
Ids(list) == {list[i] : i \in 1..Len(list)}

\* hydratePrevContextFlags(pipelineRun) up to its first await, called by a
\* function that sees the maps `seen`: the page p after it.
Hydrate(p, steps, seen) ==
    LET todo == Todo(steps, seen)
    IN  IF todo = <<>> THEN p
        ELSE [p EXCEPT !.prevCtxLoadingByRunId =
                           [rid \in RunIds |-> @[rid] \/ rid \in Ids(todo)],
                       !.hydrates[todo] = @ + 1,
                       !.fetched[todo[1]] = OnceMore(@)]

\* The render after pr was set and the effect on pr.id and the steps: when
\* these differ from those of the page `old`, hydratePrevContextFlags(pr) is
\* called with the maps of that render.
Rendered(p, old) ==
    IF p.pr # NoPipelineRun /\ (old.pr = NoPipelineRun \/ p.pr.steps # old.pr.steps)
    THEN Hydrate(p, p.pr.steps, Closure(p.prevCtxByRunId, p.prevCtxLoadingByRunId))
    ELSE p

\* What the backend answers with.
StepLists == {<<"r0", Null, Null>>, <<"r0", "r1", Null>>, <<"r0", "r1", "r2">>}
PipelineRuns ==
    {[status |-> IF steps[3] # Null THEN "completed" ELSE "running", steps |-> steps] :
        steps \in StepLists}
\* created_run_id and the entries of created_run_ids.
CreatedIds == {"r1", "r2", Null}
NextResponses ==
    {[created_run_id |-> rid, pipeline_run |-> run] :
        rid \in CreatedIds, run \in PipelineRuns}
\* created_run_ids: empty, one id, two in either order, an id twice, and a
\* null entry.
CreatedLists ==
    {<<>>, <<"r1">>, <<"r1", "r2">>, <<"r2", "r1">>, <<"r2", "r2">>, <<Null, "r1">>}
ExecuteAllResponses ==
    {[created_run_ids |-> ids, pipeline_run |-> run] :
        ids \in CreatedLists, run \in PipelineRuns}
pipelineOthers == <<docs, builder, artifact, lastRequest, requests, apiVars>>
\* The calls of hydratePrevContextFlags that await a fetch, and the requests
\* the pipeline page awaits.
Hydrating ==
    pipeline.hydrates[<<"r1">>] + pipeline.hydrates[<<"r2">>]
        + pipeline.hydrates[<<"r1", "r2">>]
PipelineAwaited ==
    Cardinality({flag \in {"loading", "execLoading", "execAllLoading"} : pipeline[flag]})
        + Hydrating

\* The effect on [prid]: load() up to its await.  The effect on pr returns,
\* pr being null.
PipelineEffect ==
    /\ pipeline.effect = "scheduled"
    /\ pipeline' = IF pipeline.prid = ""
                   THEN [pipeline EXCEPT !.effect = "ran"]
                   ELSE [pipeline EXCEPT !.effect = "ran", !.err = Null, !.loading = TRUE]
    /\ UNCHANGED pipelineOthers

\* load() up to its await, from the reload button.
PipelineLoad ==
    /\ pipeline.effect = "ran"
    /\ ~pipeline.loading
    /\ PipelineAwaited < MaxPending
    /\ pipeline' = IF pipeline.prid = ""
                   THEN pipeline
                   ELSE [pipeline EXCEPT !.err = Null, !.loading = TRUE]
    /\ UNCHANGED pipelineOthers

\* load() after its await.
PipelineLoaded(res) ==
    /\ pipeline.loading
    /\ pipeline' =
           IF ~res.ok
           THEN [pipeline EXCEPT !.loading = FALSE,
                                 !.err = FailedText("Pipeline run load", res)]
           ELSE Rendered([pipeline EXCEPT !.loading = FALSE, !.pr = res.data], pipeline)
    /\ UNCHANGED pipelineOthers

\* executeNext() up to its await.
ExecuteNext ==
    /\ CanExecute
    /\ ~pipeline.execLoading
    /\ PipelineAwaited < MaxPending
    /\ pipeline' =
           IF pipeline.prid = ""
           THEN pipeline
           ELSE [pipeline EXCEPT !.err = Null, !.execLoading = TRUE,
                                 !.nextSeen = Closure(pipeline.prevCtxByRunId,
                                                      pipeline.prevCtxLoadingByRunId)]
    /\ UNCHANGED pipelineOthers

\* executeNext() after its await.
NextExecuted(res) ==
    /\ pipeline.execLoading
    /\ pipeline' =
           IF ~res.ok
           THEN [pipeline EXCEPT !.execLoading = FALSE, !.nextSeen = NoClosure,
                                 !.err = FailedText("Execute next", res)]
           ELSE LET rid == res.data.created_run_id
                    set == [pipeline EXCEPT
                               !.execLoading = FALSE, !.nextSeen = NoClosure,
                               !.pr = res.data.pipeline_run,
                               !.lastCreatedRunId = rid,
                               !.createdRunIds = IF rid # Null THEN PrependNew(rid, @) ELSE @]
                IN  Rendered(Hydrate(set, res.data.pipeline_run.steps, pipeline.nextSeen),
                             pipeline)
    /\ UNCHANGED pipelineOthers

\* executeAll() up to its await.
ExecuteAll ==
    /\ CanExecute
    /\ ~pipeline.execAllLoading
    /\ PipelineAwaited < MaxPending
    /\ pipeline' =
           IF pipeline.prid = ""
           THEN pipeline
           ELSE [pipeline EXCEPT !.err = Null, !.execAllLoading = TRUE,
                                 !.allSeen = Closure(pipeline.prevCtxByRunId,
                                                     pipeline.prevCtxLoadingByRunId)]
    /\ UNCHANGED pipelineOthers

\* executeAll() after its await.
AllExecuted(res) ==
    /\ pipeline.execAllLoading
    /\ pipeline' =
           IF ~res.ok
           THEN [pipeline EXCEPT !.execAllLoading = FALSE, !.allSeen = NoClosure,
                                 !.err = FailedText("Execute all", res)]
           ELSE LET ids == FilterBoolean(res.data.created_run_ids)
                    set == [pipeline EXCEPT
                               !.execAllLoading = FALSE, !.allSeen = NoClosure,
                               !.pr = res.data.pipeline_run,
                               !.lastCreatedRunId = IF ids # <<>> THEN ids[Len(ids)] ELSE @,
                               !.createdRunIds = IF ids # <<>> THEN Dedupe(ids \o @) ELSE @]
                IN  Rendered(Hydrate(set, res.data.pipeline_run.steps, pipeline.allSeen),
                             pipeline)
    /\ UNCHANGED pipelineOthers

\* hydratePrevContextFlags: GET /runs/{rid} of a call with todo left settled;
\* the flag of rid is set, its loading flag cleared, and the next run id of
\* todo fetched.
RunFetched(todo, res) ==
    /\ pipeline.hydrates[todo] > 0
    /\ LET rid == todo[1]
           rest == Tail(todo)
       IN  pipeline' =
               [pipeline EXCEPT
                   !.prevCtxByRunId[rid] = IF res.ok /\ res.data THEN "true" ELSE "false",
                   !.prevCtxLoadingByRunId[rid] = FALSE,
                   !.hydrates = IF rest = <<>>
                                THEN [@ EXCEPT ![todo] = @ - 1]
                                ELSE [@ EXCEPT ![todo] = @ - 1, ![rest] = @ + 1],
                   !.fetched = IF rest = <<>> THEN @ ELSE [@ EXCEPT ![rest[1]] = OnceMore(@)]]
    /\ UNCHANGED pipelineOthers

InitPipeline ==
    /\ InitCommon
    /\ pathname = WorkspacesPath
    /\ client = [c \in Calls |-> "refresh"]
    /\ opts = [c \in Calls |-> DefaultOpts]
    /\ docs = Unmounted
    /\ builder = Unmounted
    /\ artifact = Unmounted
    /\ pipeline \in {PipelineInitial(prid) : prid \in {"", "p1"}}
    /\ lastRequest = NoRequest
    /\ requests = {}

NextPipeline ==
    \/ PipelineEffect
    \/ PipelineLoad
    \/ \E res \in {Success(run) : run \in PipelineRuns} \cup ArtifactFailures :
            PipelineLoaded(res)
    \/ ExecuteNext
    \/ \E res \in {Success(data) : data \in NextResponses} \cup ArtifactFailures :
            NextExecuted(res)
    \/ ExecuteAll
    \/ \E res \in {Success(data) : data \in ExecuteAllResponses} \cup ArtifactFailures :
            AllExecuted(res)
    \/ \E todo \in TodoLists, res \in {Success(TRUE), Success(FALSE)} \cup ArtifactFailures :
            RunFetched(todo, res)

SpecPipeline == InitPipeline /\ [][NextPipeline]_vars

\* ------------------------------------------------------------- properties

Done(c) == pc[c] = "done"
\* The refresh that call c triggered or joined failed / succeeded.
RefreshFailed(c) ==
    joined[c] # 0 /\ refreshStatus[joined[c]] # Pending /\ ~IsOk(refreshStatus[joined[c]])
RefreshSucceeded(c) == joined[c] # 0 /\ IsOk(refreshStatus[joined[c]])
\* All calls were issued before any of them had a response.
IssuedConcurrently == batch /\ \A c \in Calls : pc[c] # "idle"

\* C1: at most one network call to the refresh endpoint is in flight, and every
\* call suspended in refreshOnce while the event loop is between tasks waits
\* for that one call (it joined it rather than issuing another).
C1_AtMostOneRefreshInFlight ==
    /\ Cardinality(refreshNet) <= 1
    /\ \A c \in Calls : (pc[c] = "refresh" /\ micro = <<>>) => refreshNet = {joined[c]}

\* C1 witness: two calls wait for the same refresh call, the only one issued.
C1_Witness ==
    \E c, d \in Calls :
        /\ c # d /\ pc[c] = "refresh" /\ pc[d] = "refresh"
        /\ joined[c] = joined[d] /\ refreshCalls = 1 /\ refreshNet = {joined[c]}

\* C2 as stated: calls issued concurrently whose first responses are all 401
\* make exactly one refresh call, whenever the responses arrive.
C2_OneRefreshInEveryInterleaving ==
    (IssuedConcurrently /\ \A c \in Calls : first[c] = 401) => refreshCalls = 1

\* C2 amended: under the same premise between 1 and N refresh calls are made,
\* and exactly one when no refresh call had settled before any of the 401
\* responses arrived.
C2_OneRefreshWhenNoneSettledBefore ==
    (IssuedConcurrently /\ \A c \in Calls : first[c] = 401) =>
        /\ refreshCalls >= 1 /\ refreshCalls <= NCalls
        /\ (\A c \in Calls : settledBefore[c] = 0) => refreshCalls = 1

\* C2 witness: every call had a 401 before the refresh settled, all are done.
C2_Witness ==
    /\ IssuedConcurrently
    /\ \A c \in Calls : first[c] = 401 /\ settledBefore[c] = 0 /\ Done(c)
    /\ refreshCalls = 1

\* C3: the calls that joined a refresh observe the outcome of that refresh call
\* (hence the same one), a retry is sent only once that call has settled, and
\* each call that observed success sent its own retry.
C3_JoinedCallsShareOutcome ==
    /\ \A c \in Calls : observed[c] # "none" =>
            /\ joined[c] # 0 /\ joined[c] \notin refreshNet
            /\ observed[c] = Settled(RefreshSucceeded(c))
    /\ \A c, d \in Calls :
            (joined[c] = joined[d] /\ observed[c] # "none" /\ observed[d] # "none")
                => observed[c] = observed[d]
    /\ \A c \in Calls : sent[c] = 2 => observed[c] = "true"
    /\ \A c \in Calls : (observed[c] = "true" /\ first[c] = 401) => sent[c] = 2

\* C3 witness: two calls joined the same successful refresh and each retried.
C3_Witness ==
    \E c, d \in Calls :
        /\ c # d /\ joined[c] = joined[d] /\ joined[c] # 0
        /\ observed[c] = "true" /\ observed[d] = "true"
        /\ pc[c] = "fetch2" /\ pc[d] = "fetch2"

\* C4: the slot never holds a settled promise (it is empty when a joined
\* call resumes, after success and after failure), and the refresh a call
\* triggers or joins is never one that had settled when its 401 arrived.
C4_SlotResetOnSettle ==
    /\ refreshInFlight # 0 => promise[refreshInFlight] = "pending"
    /\ (micro # <<>> /\ Head(micro).kind = "resume") => refreshInFlight = 0
    /\ \A c \in Calls : joined[c] # 0 => joined[c] > settledBefore[c]

\* C4 witness: a call whose 401 arrived after a failed refresh had settled
\* started the second refresh call.
C4_Witness ==
    \E c \in Calls :
        /\ settledBefore[c] = 1 /\ joined[c] = 2 /\ refreshNet = {2}
        /\ refreshStatus[1] # Pending /\ ~IsOk(refreshStatus[1])

\* C5: apiFetch never rejects: a call that has returned resolved to
\* {ok:true, data} or to {ok:false, error, status}.
IsResult(x) ==
    \/ DOMAIN x = {"ok", "data"} /\ x.ok = TRUE
    \/ DOMAIN x = {"ok", "error", "status"} /\ x.ok = FALSE /\ x.status \in Int
C5_NeverThrows ==
    \A c \in Calls :
        /\ pc[c] # "rejected"
        /\ Done(c) => IsResult(result[c])
        /\ ~Done(c) => result[c] = NoResult

\* C5 witness: a call resolved although its refresh call threw and the body of
\* its 401 response could not be read.
C5_Witness ==
    \E c \in Calls :
        /\ Done(c) /\ first[c] = 401 /\ joined[c] # 0
        /\ refreshStatus[joined[c]] = Thrown
        /\ r[c].body = Unread /\ result[c].ok = FALSE /\ result[c].status = 0

\* The body of the terminal response of call c was read.
BodyRead(c) == r[c].body # Unread
\* What a returned call gives for a terminal 2xx response held in r[c].
FromResponse(c) ==
    IF ~Includes(r[c].ctype, JsonType[1]) THEN result[c] = Success(EmptyObject)
    ELSE IF BodyRead(c) /\ ParseJson(r[c].body) # CannotParse
         THEN result[c] = Success(ParseJson(r[c].body))
         ELSE result[c].ok = FALSE /\ result[c].status = 0

\* C6 as stated: first response 401, refresh succeeded, retried response 2xx:
\* the call returns {ok:true, data} and triggers no redirect.
C6_RetrySuccessGivesOk ==
    \A c \in Calls :
        (Done(c) /\ first[c] = 401 /\ RefreshSucceeded(c) /\ IsOk(second[c])) =>
            result[c].ok = TRUE /\ redirects[c] = 0

\* C6 amended: in that case no redirect is triggered and the result is built
\* from the retried response: {ok:true, data} with data the parsed body of the
\* retried response ({} for a non-JSON content type), or {ok:false, status:0}
\* when reading or parsing that body failed.
C6_RetrySuccessFromRetriedResponse ==
    \A c \in Calls :
        (Done(c) /\ first[c] = 401 /\ RefreshSucceeded(c) /\ IsOk(second[c])) =>
            /\ redirects[c] = 0
            /\ r[c].attempt = 2 /\ r[c].status = second[c]
            /\ FromResponse(c)

\* C6 witness: the retried response delivered a JSON body after a first 401.
C6_Witness ==
    \E c \in Calls :
        /\ Done(c) /\ first[c] = 401 /\ RefreshSucceeded(c) /\ second[c] = 200
        /\ result[c] = Success({<<"id", 7>>}) /\ CanNavigate(pathname)

\* C7: a call sends its request again exactly when its first response was 401
\* and its refresh reported success; it sends at most two requests, and at
\* most one refresh call is issued per call whose first response was 401,
\* also when the retried response is 401 again.
C7_RetryExactlyOnce ==
    /\ \A c \in Calls :
            /\ sent[c] <= 2
            /\ sent[c] = 2 => (first[c] = 401 /\ RefreshSucceeded(c) /\ observed[c] = "true")
            /\ (first[c] = 401 /\ RefreshSucceeded(c) /\ observed[c] # "none") => sent[c] = 2
            /\ first[c] # 401 => joined[c] = 0
    /\ refreshCalls <= Cardinality({c \in Calls : first[c] = 401})

\* C7 witness: a retried response was 401 again and the call returned.
C7_Witness ==
    \E c \in Calls :
        Done(c) /\ first[c] = 401 /\ second[c] = 401 /\ sent[c] = 2 /\ refreshCalls = 1

\* C8 as stated: first response 401 and refresh failed: no retry, the result
\* has status 401, and the redirect is triggered off the login and
\* registration screens.
C8_FailedRefreshGives401 ==
    \A c \in Calls :
        (Done(c) /\ first[c] = 401 /\ RefreshFailed(c)) =>
            /\ sent[c] = 1
            /\ result[c].ok = FALSE /\ result[c].status = 401
            /\ CanNavigate(pathname) => redirects[c] = 1

\* C8 amended: in that case there is no retry, the redirect is triggered off
\* the login and registration screens (and not on them), and the result is the
\* failure with status 401 and the text of the 401 response, or the failure
\* with status 0 when reading that text failed.
C8_FailedRefreshNoRetry ==
    \A c \in Calls :
        (Done(c) /\ first[c] = 401 /\ RefreshFailed(c)) =>
            /\ sent[c] = 1 /\ second[c] = 0
            /\ redirects[c] = IF CanNavigate(pathname) THEN 1 ELSE 0
            /\ IF BodyRead(c) THEN result[c] = Failure(401, r[c].body)
               ELSE result[c].ok = FALSE /\ result[c].status = 0

\* C8 witness: a refresh answered 500 and a call returned status 401 after
\* the redirect.
C8_Witness ==
    \E c \in Calls :
        /\ Done(c) /\ first[c] = 401 /\ joined[c] # 0 /\ refreshStatus[joined[c]] = 500
        /\ result[c] = Failure(401, EmptyBody) /\ redirects[c] = 1 /\ href = LoginPath

\* A returned failure with status 401.
Returned401(c) == Done(c) /\ result[c].ok = FALSE /\ result[c].status = 401

\* C9 as stated: a failure with status 401 is never returned by a call whose
\* refresh reported success.
C9_No401AfterRefreshSuccess ==
    \A c \in Calls : Returned401(c) => observed[c] # "true"

\* C9 amended: a failure with status 401 is returned only by a call whose
\* first response was 401 and that triggered or joined a refresh (never with
\* the refresh absent), after that refresh failed, or after it succeeded and
\* the retried response was 401 again.
C9_401OnlyAfterRefresh ==
    \A c \in Calls :
        Returned401(c) =>
            /\ first[c] = 401 /\ joined[c] # 0 /\ observed[c] # "none"
            /\ \/ RefreshFailed(c) /\ observed[c] = "false" /\ sent[c] = 1
               \/ RefreshSucceeded(c) /\ observed[c] = "true" /\ second[c] = 401

\* C9 witness: status 401 returned after a successful refresh.
C9_Witness ==
    \E c \in Calls : Returned401(c) /\ RefreshSucceeded(c) /\ second[c] = 401

\* C10: a call has assigned window.location.href only if its terminal
\* response, the answer to the last request it sent, has status 401; a
\* navigation is requested only by such a call.
C10_RedirectOnlyOnTerminal401 ==
    /\ \A c \in Calls :
            redirects[c] > 0 =>
                /\ redirects[c] = 1
                /\ r[c].status = 401 /\ r[c].attempt = sent[c]
                /\ IF sent[c] = 2 THEN second[c] = 401 ELSE first[c] = 401
    /\ href # NoNav => (href = LoginPath /\ \E c \in Calls : redirects[c] > 0)

\* C10 witness: first response 401, retried response 500, the call returned
\* without a navigation although the page is not the login screen.
C10_Witness ==
    \E c \in Calls :
        /\ Done(c) /\ first[c] = 401 /\ second[c] = 500 /\ result[c].status = 500
        /\ CanNavigate(pathname) /\ href = NoNav

\* The page is the login or the registration screen.
OnAuthScreen == StartsWith(pathname, LoginPath) \/ StartsWith(pathname, RegisterPath)
\* Call c has returned and the answer to the last request it sent was 401.
Terminal401(c) == Done(c) /\ r[c].attempt = sent[c] /\ r[c].status = 401

\* C11 as stated: on the login and registration screens a call whose terminal
\* response is 401 returns {ok:false, status:401} and nothing navigates.
C11_AuthScreen401NoNavigation ==
    OnAuthScreen =>
        /\ href = NoNav
        /\ \A c \in Calls :
               /\ redirects[c] = 0
               /\ Terminal401(c) => (result[c].ok = FALSE /\ result[c].status = 401)

\* C11 amended: on those screens nothing navigates, whatever 401 responses
\* arrive, and a call whose terminal response is 401 returns the failure with
\* status 401 and the text of that response, or the failure with status 0
\* when reading that text failed.
C11_AuthScreenNeverNavigates ==
    OnAuthScreen =>
        /\ href = NoNav
        /\ \A c \in Calls :
               /\ redirects[c] = 0
               /\ Terminal401(c) =>
                      IF BodyRead(c) THEN result[c] = Failure(401, r[c].body)
                      ELSE result[c].ok = FALSE /\ result[c].status = 0

\* C11 witness: on the registration screen the refresh-capable client had
\* two 401 responses and the client with the redirect only had one; both
\* returned status 401 and no navigation was requested.
C11_Witness ==
    /\ pathname = RegisterPath /\ href = NoNav
    /\ \E c, d \in Calls :
           /\ client[c] = "refresh" /\ first[c] = 401 /\ second[c] = 401
           /\ client[d] = "redirect" /\ first[d] = 401
           /\ Terminal401(c) /\ Terminal401(d)
           /\ result[c].status = 401 /\ result[d].status = 401

\* C12: a call whose first fetch threw returns {ok:false, status:0, error}
\* with the message of the thrown value, or "Network error" when it has none;
\* it sent one request, reached no refresh and requested no navigation.
C12_TransportFailureGivesStatus0 ==
    \A c \in Calls :
        (Done(c) /\ first[c] = 0) =>
            /\ caught[c] \in Errors
            /\ result[c] = [ok |-> FALSE, status |-> 0,
                            error |-> IF caught[c] = NoMessage THEN "Network error"
                                      ELSE caught[c]]
            /\ sent[c] = 1 /\ joined[c] = 0 /\ observed[c] = "none"
            /\ redirects[c] = 0
            /\ \A w \in wire : w.by = RefreshCaller => refreshCalls >= w.attempt

\* C12 witness: a fetch threw a value without a message while no refresh call
\* had been made and no navigation requested.
C12_Witness ==
    \E c \in Calls :
        /\ Done(c) /\ first[c] = 0 /\ caught[c] = NoMessage
        /\ result[c].error = "Network error" /\ result[c].status = 0
        /\ refreshCalls = 0 /\ href = NoNav /\ CanNavigate(pathname)

\* C13: the refresh promise settles to true exactly when the refresh call had
\* a 2xx response (false for any other status and for a thrown fetch), and the
\* step in which a refresh call settles requests no navigation and sends no
\* request, whatever its status.
C13_RefreshValueAndNoRecursion ==
    /\ [](\A id \in RefreshIds :
            promise[id] # "pending" =>
                promise[id] = IF refreshStatus[id] \in 200..299 THEN "true" ELSE "false")
    /\ [][refreshSettled' # refreshSettled =>
            /\ href' = href /\ redirects' = redirects
            /\ refreshCalls' = refreshCalls /\ wire' = wire
            /\ refreshInFlight' = refreshInFlight]_vars

\* C13 witness: a refresh call answered 401 has settled to false; no further
\* refresh call was made and no navigation requested.
C13_Witness ==
    \E id \in RefreshIds :
        /\ refreshStatus[id] = 401 /\ promise[id] = "false"
        /\ refreshCalls = 1 /\ refreshNet = {}
        /\ \E c \in Calls : joined[c] = id /\ pc[c] = "refresh"
        /\ href = NoNav /\ CanNavigate(pathname)

\* The response held in r[c] is the terminal response of call c.
Terminal(c) == Done(c) /\ r[c] # NoResp /\ r[c].attempt = sent[c]

DeclaresJson(ctype) == ctype \in {JsonType, JsonCharsetType}
\* The result built from the body of r[c] by `await r.json()`.
FromJsonBody(c) ==
    IF BodyRead(c) /\ ParseJson(r[c].body) # CannotParse
    THEN result[c] = Success(ParseJson(r[c].body))
    ELSE result[c].ok = FALSE /\ result[c].status = 0 /\ caught[c] # NotCaught

ErrorOf(status, text) ==
    IF text # "" THEN text
    ELSE CASE status = 401 -> "HTTP 401" [] status = 500 -> "HTTP 500"
           [] OTHER -> "HTTP " \o ToString(status)

\* C15: a call whose terminal response is non-2xx returns {ok:false, error,
\* status} with the status of that response and its body text as error, or
\* "HTTP <status>" when the body is empty.
C15_EveryNon2xxGivesFailure ==
    \A c \in Calls :
        (Terminal(c) /\ r[c].status \notin 200..299) =>
            /\ BodyRead(c)
            /\ result[c] = [ok |-> FALSE, error |-> ErrorOf(r[c].status, r[c].body),
                            status |-> r[c].status]

\* C15 amended: such a call returns that failure when the body text was read,
\* and {ok:false, status:0} with the message of the thrown value when reading
\* it failed.
C15_Non2xxGivesFailureOrStatus0 ==
    \A c \in Calls :
        (Terminal(c) /\ r[c].status \notin 200..299) =>
            IF BodyRead(c)
            THEN result[c] = [ok |-> FALSE, error |-> ErrorOf(r[c].status, r[c].body),
                              status |-> r[c].status]
            ELSE /\ caught[c] \in Errors
                 /\ result[c].ok = FALSE /\ result[c].status = 0

\* C15 witness: a retried response was 500 with an empty body, and the call
\* returned "HTTP 500".
C15_Witness ==
    \E c \in Calls :
        /\ Terminal(c) /\ first[c] = 401 /\ second[c] = 500 /\ r[c].body = EmptyBody
        /\ result[c] = [ok |-> FALSE, error |-> "HTTP 500", status |-> 500]

\* C16: in a client without the refresh mechanism a call whose response is 401
\* reaches no refresh, sends no second request, returns {ok:false, status:401},
\* and requests the login redirect once when the current path starts with
\* neither /login nor /register.
C16_SimpleClient401Redirects ==
    \A c \in Calls :
        (client[c] # "refresh" /\ Done(c) /\ first[c] = 401) =>
            /\ joined[c] = 0 /\ sent[c] = 1 /\ observed[c] = "none"
            /\ result[c].ok = FALSE /\ result[c].status = 401
            /\ ~OnAuthScreen => (redirects[c] = 1 /\ href = LoginPath)

\* C16 failing state: the plain client returned the 401 failure on
\* /workspaces and no navigation was requested.
C16_Witness ==
    \E c \in Calls :
        /\ client[c] = "plain" /\ Done(c) /\ first[c] = 401
        /\ result[c] = [ok |-> FALSE, error |-> TextBody, status |-> 401]
        /\ pathname = WorkspacesPath /\ redirects[c] = 0 /\ href = NoNav

\* C17: while the refresh call that a call triggered or joined has not
\* settled, that call stays suspended in refreshOnce without a result, a call
\* whose 401 arrives meanwhile joins that same refresh call, and once every
\* call waits for it no step other than the settling of the refresh call is
\* possible: nothing times the wait out or cancels it.
C17_UnsettledRefreshSuspendsCallers ==
    /\ \A c \in Calls :
            (joined[c] # 0 /\ refreshStatus[joined[c]] = Pending) =>
                /\ pc[c] = "refresh" /\ result[c] = NoResult
                /\ observed[c] = "none" /\ sent[c] = 1
                /\ refreshInFlight = joined[c] /\ refreshNet = {joined[c]}
    /\ (refreshNet # {} /\ \A c \in Calls : pc[c] = "refresh") =>
            ~ENABLED (Next /\ refreshNet' = refreshNet)

\* C17 witness: every call waits for the first refresh call, which has not
\* settled; one of them joined after another had triggered it.
C17_Witness ==
    /\ refreshStatus[1] = Pending /\ refreshNet = {1} /\ refreshCalls = 1
    /\ \A c \in Calls : pc[c] = "refresh" /\ joined[c] = 1 /\ first[c] = 401
    /\ micro = <<>> /\ ~batch

\* The requests to the resource (not to the refresh endpoint) sent so far by
\* call c, and by all calls.
RequestsOf(c) == {w \in wire : w.by = c}
ResourceRequests == {w \in wire : w.by # RefreshCaller}

\* C18: every issued call has sent a first request of its own, also when
\* another call with the same path and options is in flight; every call that
\* observed the success of a refresh, shared or not, has sent a retry of its
\* own; so the resource requests are as many as the calls' own requests, and
\* a returned call built its result from the response to its own last
\* request.  Only the refresh requests are fewer than the calls that needed
\* one.
C18_OnlyRefreshIsShared ==
    /\ \A c \in Calls :
            /\ Cardinality(RequestsOf(c)) = sent[c]
            /\ pc[c] # "idle" => [init |-> DoFetchInit(opts[c]), by |-> c, attempt |-> 1] \in wire
            /\ observed[c] = "true" =>
                   [init |-> DoFetchInit(opts[c]), by |-> c, attempt |-> 2] \in wire
            /\ (Done(c) /\ r[c] # NoResp /\ caught[c] = NotCaught) => r[c].attempt = sent[c]
    /\ Cardinality({w \in ResourceRequests : w.attempt = 1})
           = Cardinality({c \in Calls : pc[c] # "idle"})
    /\ Cardinality({w \in ResourceRequests : w.attempt = 2})
           = Cardinality({c \in Calls : observed[c] = "true"})
    /\ Cardinality(wire \ ResourceRequests) = refreshCalls
    /\ refreshCalls <= Cardinality({c \in Calls : joined[c] # 0})

\* C18 witness: concurrent calls with the same path and options shared one
\* successful refresh; each sent its own first request and its own retry.
C18_Witness ==
    /\ IssuedConcurrently /\ refreshCalls = 1
    /\ \A c, d \in Calls : opts[c] = opts[d]
    /\ \A c \in Calls : Done(c) /\ first[c] = 401 /\ joined[c] = 1 /\ sent[c] = 2
    /\ Cardinality(ResourceRequests) = 2 * NCalls
    /\ Cardinality(wire) = 2 * NCalls + 1

\* Call x got as far as reading the body of its response.
TriedBody(x) == BodyRead(x) \/ (caught[x] # NotCaught /\ first[x] # 0)
\* Calls c and d were given the same by the network: the same failure of
\* fetch, or the same status line and content type, and, where both read the
\* body, the same text or the same failure of the read.
SameAnswers(c, d) ==
    /\ first[c] = first[d] /\ r[c].status = r[d].status /\ r[c].ctype = r[d].ctype
    /\ first[c] = 0 => caught[c] = caught[d]
    /\ (TriedBody(c) /\ TriedBody(d)) =>
            (r[c].body = r[d].body /\ (BodyRead(c) => caught[c] = caught[d]))
    /\ (~BodyRead(c) /\ TriedBody(c) /\ ~BodyRead(d) /\ TriedBody(d)) =>
            caught[c] = caught[d]
\* Two returned calls of which neither had a 401 response.
BothDoneNo401(c, d) == Done(c) /\ Done(d) /\ first[c] # 401 /\ first[d] # 401

\* C19: a call of the refresh-capable client and a call of a client without
\* refresh that were given the same by the network, without any 401, return
\* the same result, and neither requests a navigation.
C19_RefreshClientIsSuperset ==
    \A c, d \in Calls :
        (/\ client[c] = "refresh" /\ client[d] # "refresh"
         /\ BothDoneNo401(c, d) /\ SameAnswers(c, d)) =>
            /\ result[c] = result[d]
            /\ redirects[c] = 0 /\ redirects[d] = 0

\* C19 for the redirect-only client alone: there the results agree.
C19_SameAsRedirectOnly ==
    \A c, d \in Calls :
        (/\ client[c] = "refresh" /\ client[d] = "redirect"
         /\ BothDoneNo401(c, d) /\ SameAnswers(c, d)) =>
            /\ result[c] = result[d]
            /\ redirects[c] = 0 /\ redirects[d] = 0

\* C19 failing state: both clients had a 200 text/html response; the
\* refresh-capable client returned {ok:true, data:{}}, the plain client read
\* the body and returned a failure with status 0.
C19_Witness ==
    \E c, d \in Calls :
        /\ client[c] = "refresh" /\ client[d] = "plain"
        /\ BothDoneNo401(c, d) /\ SameAnswers(c, d)
        /\ r[c].status = 200 /\ r[c].ctype = HtmlType
        /\ result[c] = Success(EmptyObject)
        /\ result[d].ok = FALSE /\ result[d].status = 0

\* HTTP header names are case-insensitive: the lower-case form of the names
\* that occur.
LowerName(name) ==
    CASE name = "Content-Type" -> "content-type"
      [] name = "X-Trace" -> "x-trace"
      [] OTHER -> name
\* The values a set of headers gives for the content type.
ContentTypeValues(headers) ==
    {h[2] : h \in {g \in headers : LowerName(g[1]) = "content-type"}}
\* The content type the caller of call c supplied, if any.
CallerContentType(c) == ContentTypeValues(opts[c].headers)

\* C20: every request sent, first attempt, retry and refresh call, has
\* credentials "include" whatever the caller passed, and has the content type
\* application/json unless the caller supplied a content type of its own,
\* which it then has instead; the retry is sent with the url and the options
\* of the first attempt.
C20_CredentialsAndContentType ==
    /\ \A w \in wire :
            /\ w.init.credentials = "include"
            /\ ContentTypeValues(w.init.headers) =
                   IF w.by = RefreshCaller \/ CallerContentType(w.by) = {}
                   THEN {"application/json"}
                   ELSE CallerContentType(w.by)
    /\ \A v, w \in wire : (v.by = w.by /\ v.by # RefreshCaller) => v.init = w.init

\* C20 for what does hold: credentials are "include" on every request, the
\* retry has the init object of the first attempt, method and body are the
\* caller's, and the property Content-Type of the headers is the caller's when
\* the caller passed a plain object with a property of exactly that name, and
\* application/json otherwise.
C20_ExactPropertyNameWins ==
    /\ \A w \in wire :
            /\ w.init.credentials = "include"
            /\ \E h \in w.init.headers : h[1] = "Content-Type"
            /\ \A h \in w.init.headers :
                   h[1] = "Content-Type" =>
                      IF /\ w.by # RefreshCaller
                         /\ opts[w.by].headersClass = "Object"
                         /\ \E g \in opts[w.by].headers : g[1] = "Content-Type"
                      THEN h \in opts[w.by].headers
                      ELSE h[2] = "application/json"
            /\ w.by # RefreshCaller =>
                   /\ w.init.url = opts[w.by].path
                   /\ w.init.method = opts[w.by].method
                   /\ w.init.body = opts[w.by].body
    /\ \A v, w \in wire : (v.by = w.by /\ v.by # RefreshCaller) => v.init = w.init

\* C20 failing state: the caller passed its content type in an instance of
\* Headers, and the first attempt and the retry went out with
\* application/json alone.
C20_Witness ==
    \E c \in Calls :
        /\ opts[c] = HeadersInstanceOpts /\ sent[c] = 2
        /\ CallerContentType(c) = {"text/plain"}
        /\ \A w \in RequestsOf(c) : ContentTypeValues(w.init.headers) = {"application/json"}

\* C21: when every network call eventually settles, every call of apiFetch
\* that was issued eventually returns a result; a call sends at most two
\* requests to the resource, and it begins to wait for a refresh at most once,
\* from its first response.
C21_EveryCallReturns ==
    /\ \A c \in Calls : (pc[c] # "idle") ~> (Done(c) /\ IsResult(result[c]))
    /\ [](\A c \in Calls : sent[c] <= 2 /\ Cardinality(RequestsOf(c)) <= 2)
    /\ [][\A c \in Calls :
            (pc'[c] = "refresh" /\ pc[c] # "refresh") =>
                (pc[c] = "fetch1" /\ joined[c] = 0 /\ sent[c] = 1)]_vars

\* C21 witness: all calls returned, each after a refresh wait and two
\* requests, and two refresh calls were made.
C21_Witness ==
    /\ \A c \in Calls : Done(c) /\ sent[c] = 2 /\ joined[c] # 0
    /\ refreshCalls = NCalls /\ refreshNet = {} /\ micro = <<>>

\* C22: a returned call that requested the login redirect returned status
\* 401, and a call that returned status 0 or ok:true requested no redirect.
C22_RedirectAgreesWithStatus ==
    \A c \in Calls :
        Done(c) =>
            IF result[c].ok THEN redirects[c] = 0
            ELSE /\ redirects[c] > 0 => result[c].status = 401
                 /\ result[c].status = 0 => redirects[c] = 0

\* The body of the terminal 401 response of call c could not be read.
Terminal401Unread(c) ==
    /\ r[c].status = 401 /\ r[c].attempt = sent[c] /\ ~BodyRead(c)
    /\ caught[c] \in Errors

\* C22 amended: a call that returned ok:true requested no redirect; one that
\* returned status 401 requested it once unless the page is /login or
\* /register; one that returned status 0 requested none when a fetch of its
\* own failed (first attempt or retry), but had requested it already when
\* what failed was the reading of the body of its terminal 401 response.
C22_RedirectBeforeBodyRead ==
    \A c \in Calls :
        Done(c) =>
            IF result[c].ok THEN redirects[c] = 0
            ELSE /\ redirects[c] <= 1
                 /\ result[c].status = 401 => redirects[c] = IF OnAuthScreen THEN 0 ELSE 1
                 /\ redirects[c] = 1 =>
                        \/ result[c].status = 401
                        \/ result[c].status = 0 /\ Terminal401Unread(c)
                 /\ (result[c].status = 0 /\ ~Terminal401Unread(c)) => redirects[c] = 0
                 /\ (result[c].status = 0 /\ Terminal401Unread(c) /\ ~OnAuthScreen)
                        => redirects[c] = 1

\* C22 witness: off the login screens one call returned status 0 without
\* redirect after its retry failed at transport level, another returned
\* status 0 after the redirect because the 401 body could not be read.
C22_Witness ==
    \E c, d \in Calls :
        /\ ~OnAuthScreen /\ Done(c) /\ Done(d)
        /\ first[c] = 401 /\ sent[c] = 2 /\ second[c] = 0
        /\ result[c].ok = FALSE /\ result[c].status = 0 /\ redirects[c] = 0
        /\ Terminal401Unread(d) /\ result[d].ok = FALSE /\ result[d].status = 0
        /\ redirects[d] = 1

\* The write requests DocsPage has sent.
DocsWrites == {q \in requests : q.page = "docs" /\ q.method = "POST"}

\* C23: while the role of DocsPage is not loaded as admin or member (the
\* fetch failed, has not completed, or gave viewer) canWrite is false, and
\* every write request was sent with the role loaded as admin or member.
C23_DocsNoWriteWithoutRole ==
    /\ docs.myRole \notin {"admin", "member"} => ~CanWrite(docs.myRole)
    /\ \A q \in DocsWrites : q.roleFetch = "loaded" /\ q.myRole \in {"admin", "member"}

\* C23 failing state: the role fetch failed, the page holds no role, and the
\* create-source and the ingest request were sent after that.
C23_Witness ==
    /\ docs.roleFetch = "failed" /\ docs.myRole = Null /\ CanWrite(docs.myRole)
    /\ \E q \in DocsWrites :
           q.path = "/workspaces/w1/sources/docs" /\ q.roleFetch = "failed" /\ q.myRole = Null
    /\ \E q \in DocsWrites :
           q.path = "/workspaces/w1/documents/docs" /\ q.roleFetch = "failed" /\ q.myRole = Null

\* The create requests RunBuilderPage has sent.
BuilderWrites == {q \in requests : q.page = "builder" /\ q.method = "POST"}

\* C24: every create request of RunBuilderPage was sent with the role loaded
\* as member or admin: none with role viewer, with the role not yet loaded,
\* or after a failed role load.
C24_BuilderCreatesOnlyWithRole ==
    \A q \in BuilderWrites : q.roleFetch = "loaded" /\ q.myRole \in {"admin", "member"}

\* C24 failing state: POST /workspaces/w1/runs was sent while the role fetch
\* was still outstanding, and the page navigated to the run created.
C24_Witness ==
    /\ \E q \in BuilderWrites :
           q.path = "/workspaces/w1/runs" /\ q.roleFetch = "pending" /\ q.myRole = Null
    /\ builder.roleFetch = "pending" /\ builder.nav = "/runs/run-1"

\* The artifact page as C25 describes it locked: the held status is final or
\* in_review, or the held role is not admin or member.
EditingBlocked ==
    \/ artifact.status \in {"final", "in_review"}
    \/ artifact.myRole \notin {"admin", "Admin", "member"}

\* The requests of saveInPlace, saveNewVersion and submitForReview.
EditRequests ==
    {[method |-> "PUT", path |-> ArtifactPath("")],
     [method |-> "POST", path |-> ArtifactPath("/versions")],
     [method |-> "POST", path |-> ArtifactPath("/submit-review")]}

\* C25: while the held status is final or in_review, or the held role is not
\* admin or member (viewer, not loaded, failed to load), no step sends the
\* request of saveInPlace, saveNewVersion or submitForReview, and none of the
\* three can change the page.
C25_LockedEditsDoNothing ==
    /\ [][EditingBlocked => lastRequest' \notin EditRequests]_vars
    /\ [](EditingBlocked => ~ENABLED (SaveInPlace \/ SaveNewVersion \/ SubmitForReview))

\* C25 case: a member's submit for review has succeeded and the reload has
\* finished with status in_review; nothing is awaited and the page is locked.
C25_Witness ==
    /\ artifact.art # NoArtifact /\ artifact.status = "in_review"
    /\ artifact.myRole = "member" /\ Awaited = 0
    /\ artifact.err = Null /\ artifact.rejectReload = "none"
    /\ ~ENABLED (SaveInPlace \/ SaveNewVersion \/ SubmitForReview)

\* The requests of approve and reject.
DecisionRequests ==
    {[method |-> "POST", path |-> ArtifactPath("/approve")],
     [method |-> "POST", path |-> ArtifactPath("/reject")]}
\* The request load() starts with, and the request of loadReviews().
ReloadRequest == [method |-> "GET", path |-> ArtifactPath("")]
ReviewsRequest == [method |-> "GET", path |-> ArtifactPath("/reviews")]

\* Steps: reject() and approve() resume after a successful answer; the reload
\* started by reject() receives the answer to GET /artifacts/{aid}.
RejectSucceeds ==
    /\ artifact.rejectLoading /\ ~artifact'.rejectLoading
    /\ artifact'.loads["artifact"] = artifact.loads["artifact"] + 1
ApproveSucceeds ==
    /\ artifact.approveLoading /\ ~artifact'.approveLoading
    /\ artifact'.reviewLoads = artifact.reviewLoads + 1
RejectReloadSettles ==
    artifact.rejectReload = "running" /\ artifact'.rejectReload = "done"
ReloadAnswered == artifact'.loads["run"] = artifact.loads["run"] + 1

PublishRequest == [method |-> "POST", path |-> ArtifactPath("/publish")]
\* The states C27 allows publish in: a writer, status in_review, and the first
\* (most recent) review of the loaded list approved.
PublishAllowed ==
    /\ artifact.myRole \in {"admin", "member"}
    /\ artifact.status = "in_review"
    /\ artifact.reviews # <<>> /\ artifact.reviews[1] = "approved"
\* The reason C27 expects in each other state.
BlockedReason ==
    IF artifact.myRole \notin {"admin", "member"} THEN "Read-only role"
    ELSE IF artifact.status = "final" THEN "Already published (final)"
    ELSE IF artifact.status = "draft" THEN "Submit for review first"
    ELSE "Needs admin approval"

\* C27: the publish request is sent only from a state with a writer role, the
\* held status in_review and the most recent loaded review approved; in every
\* other state the page shows the reason that corresponds to the state and
\* publish can do nothing.
C27_PublishOnlyWhenApproved ==
    /\ [][lastRequest' = PublishRequest => PublishAllowed]_vars
    /\ [](IF PublishAllowed
          THEN PublishDisabledReason = Null
          ELSE PublishDisabledReason = BlockedReason /\ ~ENABLED Publish)

\* C27 case: a member has just clicked publish on an artifact in review whose
\* most recent review is approved (an older one is not), and the request is out.
C27_Witness ==
    /\ lastRequest = PublishRequest /\ artifact.publishing
    /\ artifact.myRole = "member" /\ artifact.status = "in_review"
    /\ artifact.reviews = <<"approved", "rejected">>

\* The paths the artifact page requests for the artifact with the id.
PathsOf(id) ==
    {"/artifacts/" \o id \o suffix :
        suffix \in {"", "/versions", "/reviews", "/submit-review", "/approve", "/reject",
                    "/publish", "/unpublish", "/diff?other_id=a0"}}

\* C28: a request for an artifact sent while an artifact is held and no load
\* is in progress names the id of the artifact held, also after
\* saveNewVersion has replaced the artifact held by its new version.
C28_RequestsNameHeldArtifact ==
    [][(/\ artifact.art # NoArtifact /\ LoadsOutstanding = 0
        /\ lastRequest'.path \in PathsOf("a1") \cup PathsOf(NewArtifactId))
           => lastRequest'.path \in PathsOf(artifact.art.id)]_vars

\* C28 failing state: saveNewVersion has succeeded, the page holds artifact a2
\* and the address bar shows /artifacts/a2, and the save clicked after that
\* has sent PUT /artifacts/a1.
C28_Witness ==
    /\ artifact.art.id = NewArtifactId /\ artifact.address = "/artifacts/" \o NewArtifactId
    /\ artifact.aid = "a1" /\ artifact.saving /\ LoadsOutstanding = 0
    /\ lastRequest = [method |-> "PUT", path |-> "/artifacts/a1"]

\* The list has no id twice.
NoDuplicate(list) == \A i, j \in 1..Len(list) : list[i] = list[j] => i = j
\* The list `after` is some new ids followed by the ids of `before` that are
\* not among them, in the order they had.
NewIdsFirst(before, after) ==
    \E k \in 1..Len(after) :
        SubSeq(after, k + 1, Len(after))
            = SelectSeq(before, LAMBDA x : x \notin Ids(SubSeq(after, 1, k)))
\* Steps: executeNext or executeAll resumes after a failed request.
ExecuteFails ==
    \/ /\ pipeline.execLoading /\ ~pipeline'.execLoading
       /\ pipeline'.err = FailedText("Execute next", Failure(500, TextBody))
    \/ /\ pipeline.execAllLoading /\ ~pipeline'.execAllLoading
       /\ pipeline'.err = FailedText("Execute all", Failure(500, TextBody))

InFlight(rid) == \E todo \in TodoLists : pipeline.hydrates[todo] > 0 /\ todo[1] = rid

\* C30: no run id is fetched more than once, and a step that issues GET
\* /runs/{rid} starts from a state in which the flag of rid is undefined and
\* no fetch of rid is in flight, whichever of the effect, executeNext and
\* executeAll called hydratePrevContextFlags.
C30_EachRunFetchedOnce ==
    /\ [](\A rid \in RunIds : pipeline.fetched[rid] <= 1)
    /\ [][\A rid \in RunIds :
             pipeline'.fetched[rid] > pipeline.fetched[rid]
                => pipeline.prevCtxByRunId[rid] = "undefined" /\ ~InFlight(rid)]_vars

\* C30 failing state: executeNext and a reload were started on a pipeline run
\* with only step 0 executed; the reload brought step 1 with run r1 and the
\* effect fetched r1; executeNext then resumed, reported r1, and its
\* hydratePrevContextFlags fetched r1 again: two GET /runs/r1 are in flight.
C30_Witness ==
    /\ pipeline.pr.steps = <<"r0", "r1", Null>>
    /\ pipeline.createdRunIds = <<"r1">> /\ pipeline.lastCreatedRunId = "r1"
    /\ pipeline.fetched["r1"] = 2 /\ pipeline.hydrates[<<"r1">>] = 2
    /\ pipeline.prevCtxByRunId["r1"] = "undefined"
    /\ ~pipeline.loading /\ ~pipeline.execLoading /\ ~pipeline.execAllLoading

====
